---- MODULE Spec2Model ----
(***************************************************************************)
(* Model of the GCN backend (src/backend/server.js, src/backend/dbInit.js):*)
(* the retry helper retryRequest, the PostgreSQL tables chat_sessions,     *)
(* chat_history and chat_memory behind the single shared pg Client, and    *)
(* the request handlers POST /api/query, GET /api/chat-history/:chatId,    *)
(* DELETE /api/chat and POST /api/update-chat-favorite.                    *)
(*                                                                         *)
(* A handler is an async function: it runs without interruption from one   *)
(* await to the next.  Each action below is one such stretch of a handler: *)
(* the statement (or upstream call) the handler is waiting for completes   *)
(* and the handler's code runs on to its next await or to its response.    *)
(***************************************************************************)
EXTENDS Integers, Sequences, FiniteSets, TLC

VARIABLES
    sessions,   \* chat_sessions: chat_id of each row -> [user_id, name, favorite]
    history,    \* chat_history: rows in insertion (created_at) order
    memory,     \* chat_memory: chat_id of each row -> the stored message list
    products,   \* products: rows [user_id, color] in insertion order
    txn,        \* transaction state of the one connection of the shared Client
    req,        \* the HTTP requests being handled, one record per slot
    rr          \* one stand-alone call of retryRequest

vars == <<sessions, history, memory, products, txn, req, rr>>

-----------------------------------------------------------------------------
(* Bounds of the model *)

MaxReq == 2          \* request slots of the full specification
MaxSeqRows == 11     \* chat_history rows of the one-after-the-other specification
MaxConcRows == 11    \* chat_history rows of the concurrent-queries specification
MaxRetries == 3      \* largest retries argument of the stand-alone retryRequest
MaxRaceRows == 3     \* chat_history rows at which the two clients stop sending
MaxOrderRows == 2    \* chat_history rows at which the user stops sending queries
MaxIndepRows == 2    \* chat_history rows of each of the two independent conversations
MaxLiveRows == 2     \* chat_history rows at which the clients of the fair specification stop
MaxPairRows == 11    \* chat_history rows at which the client of the paired-answers specification stops
MaxPairConc == 2     \* chat_history rows up to which that client sends a request before the last is answered
MaxSharedProducts == 2 \* products at which the user stops creating products while chats are deleted
MaxProducts == 7     \* products at which the first user stops creating products
MaxOtherProducts == 2 \* products at which the second user stops creating products
MaxRelated == 6      \* longest related_queries list of the upstream response

(* Program constants *)

QueryRetries == 5    \* retries argument of retryRequest in POST /api/query
QueryDelay == 5000   \* delay argument of retryRequest in POST /api/query
MemoryLimit == 20    \* updatedMemory.slice(-20)
DefaultDelay == 1000 \* delay = 1000
RelatedTarget == 5   \* data.related_queries.length < 5, 5 - data.related_queries.length

-----------------------------------------------------------------------------
(* Values *)

Missing == "undefined"               \* an absent request field
Users == {"u1", "u2"}                \* ids of the rows of the users table
ChatIds == {"c1", "c2"}              \* chat identifiers (client- or server-made)
Queries == {"q1", "q2"}              \* non-empty query strings
DefaultChatName == "Chat <now>"      \* `Chat ${new Date().toISOString()}`
Reqs == 1 .. MaxReq

Min(a, b) == IF a < b THEN a ELSE b

\* Array.prototype.slice(-n): the last n elements (all of them when fewer).
SliceLast(s, n) == IF Len(s) <= n THEN s ELSE SubSeq(s, Len(s) - n + 1, Len(s))

\* JavaScript truthiness of a request field: undefined and "" are falsy.
Truthy(x) == x # Missing /\ x # ""

-----------------------------------------------------------------------------
(* related_queries: the JSON values the AI backend may send, the padding   *)
(* and the normalisation of POST /api/query                                *)

\* JSON values: a string, an object with the fields query and context, an
\* object with other fields, a number; the field itself is an array of such
\* values, or absent, or a value that is not an array.
JString(s) == [type |-> "string", text |-> s]

JSuggestion(q, ctx) == [type |-> "object", query |-> q, context |-> ctx]

JTitled(t) == [type |-> "object", title |-> t]

JNumber(n) == [type |-> "number", num |-> n]

JArray(items) == [type |-> "array", items |-> items]

JAbsent == [type |-> "undefined"]

\* if (!data.related_queries || !Array.isArray(data.related_queries))
\*     data.related_queries = []
RelatedList(field) == IF field.type = "array" THEN field.items ELSE << >>

\* The defaultQueries of generateAdditionalQueries(query, count); a missing
\* query is interpolated as "undefined".
defaultQueries(query) ==
    << "What are the best practices related to " \o query \o "?",
       "How does " \o query \o " impact compliance requirements?",
       "What are common challenges with " \o query \o "?",
       "What standards govern " \o query \o "?",
       "How to implement " \o query \o " effectively?",
       "What are the latest developments in " \o query \o "?",
       "How to measure success in " \o query \o "?",
       "What are the risks associated with " \o query \o "?" >>

\* .sort(() => 0.5 - Math.random()).slice(0, count): the positions in
\* defaultQueries of the first count elements of the shuffled array, any
\* count different positions in any order.
Picks(count) ==
    {p \in [1 .. count -> 1 .. 8] : \A i, j \in 1 .. count : p[i] = p[j] => i = j}

\* .map((queryText) => ({query: queryText, context: "Generated suggestion"}))
generateAdditionalQueries(query, count, picks) ==
    [i \in 1 .. count |->
        JSuggestion(defaultQueries(query)[picks[i]], "Generated suggestion")]

\* The count argument of the call of generateAdditionalQueries; no call
\* (nothing picked) when the list has five elements or more.
AdditionalCount(list) ==
    IF Len(list) < RelatedTarget THEN RelatedTarget - Len(list) ELSE 0

\* A slip of the order: the generated suggestions are put in front.
PadRelated_front(list, query, picks) ==
    IF Len(list) < RelatedTarget
    THEN generateAdditionalQueries(query, RelatedTarget - Len(list), picks) \o list
    ELSE list

\* data.related_queries = [...data.related_queries, ...additionalQueries]
PadRelated(list, query, picks) ==
    IF Len(list) < RelatedTarget
    THEN list \o generateAdditionalQueries(query, RelatedTarget - Len(list), picks)
    ELSE list

\* typeof item === "string" ? {query: item, context: "Generated suggestion"} : item
NormalizeItem(item) ==
    IF item.type = "string"
    THEN JSuggestion(item.text, "Generated suggestion")
    ELSE item

\* data.related_queries after the three steps, for the related_queries field
\* of the upstream response.
NormalizeRelated(field, query, picks) ==
    LET padded == PadRelated(RelatedList(field), query, picks)
    IN [i \in 1 .. Len(padded) |-> NormalizeItem(padded[i])]

-----------------------------------------------------------------------------
(* The database: three tables behind one connection.                       *)

\* A table keyed by chat_id is a function whose domain is the keys of its rows.
NoRows == [c \in {} |-> 0]

Has(table, c) == c \in DOMAIN table

Put(table, c, row) == [k \in DOMAIN table \cup {c} |-> IF k = c THEN row ELSE table[k]]

Remove(table, c) == [k \in DOMAIN table \ {c} |-> table[k]]

Tables == [s |-> sessions, h |-> history, m |-> memory, p |-> products]

\* The tables empty.
NoSnap == [s |-> NoRows, h |-> << >>, m |-> NoRows, p |-> << >>]

\* Statements of every handler go through the same Client, that is, the same
\* connection: a transaction opened by one handler contains the statements
\* every other handler sends until it ends.
TxnIdle == [state |-> "idle", snap |-> NoSnap, start |-> 0]

\* An error of a statement: the statement has no effect, and inside a
\* transaction block it puts the transaction in the aborted state, in which
\* every further statement is rejected until the block ends.
StmtRejected == txn.state = "aborted"

TxnAfterError == IF txn.state = "open" THEN [txn EXCEPT !.state = "aborted"] ELSE txn

\* Time is counted in the created_at values of chat_history: the latest one
\* among the rows of h, 0 when h has no row.
LastCreatedAt(h) ==
    IF h = << >> THEN 0
    ELSE CHOOSE t \in {h[i].created_at : i \in 1 .. Len(h)} :
             \A i \in 1 .. Len(h) : h[i].created_at <= t

\* BEGIN: opens a transaction block, at a time later than every row stored so
\* far; inside a block it only warns.
TxnBegin ==
    IF txn.state = "idle"
    THEN [state |-> "open", snap |-> Tables, start |-> LastCreatedAt(history) + 1]
    ELSE txn

\* created_at TIMESTAMP DEFAULT CURRENT_TIMESTAMP: the start time of the
\* current transaction; outside a transaction block the statement is its own
\* transaction, later than every row stored so far.
CurrentTimestamp ==
    IF txn.state = "idle" THEN LastCreatedAt(history) + 1 ELSE txn.start

\* The tables after ROLLBACK (and after COMMIT of an aborted transaction).
Restored == IF txn.state = "idle" THEN Tables ELSE txn.snap

\* The tables after COMMIT: an aborted block is rolled back instead.
Committed == IF txn.state = "aborted" THEN txn.snap ELSE Tables

SetTables(t) ==
    /\ sessions' = t.s
    /\ history' = t.h
    /\ memory' = t.m
    /\ products' = t.p

HistoryOf(h, c) == SelectSeq(h, LAMBDA row : row.chat_id = c)

\* The products initializeDatabase inserts into an empty products table: they
\* have no user_id.
SeedProducts ==
    << [user_id |-> Missing, color |-> "blue"],
       [user_id |-> Missing, color |-> "red"],
       [user_id |-> Missing, color |-> "green"] >>

\* ORDER BY created_at ASC: the rows in any order in which created_at does
\* not decrease; rows of equal created_at come in any order.
OrderedByCreatedAt(rows) ==
    LET n == Len(rows)
        orders == {p \in [1 .. n -> 1 .. n] :
                      /\ \A i, j \in 1 .. n : p[i] = p[j] => i = j
                      /\ \A i \in 1 .. n - 1 :
                            rows[p[i]].created_at <= rows[p[i + 1]].created_at}
    IN {[i \in 1 .. n |-> rows[p[i]]] : p \in orders}

HasHistory(c) == \E i \in 1 .. Len(history) : history[i].chat_id = c

\* chat_history.chat_id and chat_memory.chat_id REFERENCES chat_sessions(chat_id)
SessionReferenced(c) == HasHistory(c) \/ Has(memory, c)

-----------------------------------------------------------------------------
(* Requests *)

\* The fields of the AI backend's response, besides related_queries, that
\* chat_history has a column for.
ChannelNames ==
    {"pdf_references", "similar_images", "online_images", "online_videos",
     "online_links", "product_colors"}

\* A response without any of them.
NoChannels == [ch \in ChannelNames |-> JAbsent]

\* value || []
OrEmptyList(value) ==
    IF \/ value.type = "undefined"
       \/ value.type = "string" /\ value.text = ""
       \/ value.type = "number" /\ value.num = 0
    THEN JArray(<< >>) ELSE value

\* if (!data.pdf_references) data.pdf_references = []
ReceivedChannels(channels) ==
    [channels EXCEPT !["pdf_references"] = OrEmptyList(@)]

NoData ==
    [answer |-> Missing, chat_name |-> Missing, related_queries |-> << >>,
     channels |-> NoChannels]

\* The body of the request to the AI backend when none has been sent.
NotSent == [chat_id |-> Missing, memory |-> << >>]

\* IdleReq below has, for a POST /api/query: chatMemory, the memory loaded;
\* memoryError, whether the memory query threw; sent, the body of the request
\* to the AI backend; received, the related_queries field of its response as
\* it arrived; data, the response after the handler's changes.

\* A response body: an error or confirmation message, the details of an error
\* of POST /api/query (error.message), the answer and chatId of POST
\* /api/query with its related_queries, the rows of GET /api/chat-history,
\* the row POST /api/products created.
NoProduct == [user_id |-> Missing, color |-> Missing]

NoBody ==
    [message |-> "", details |-> "", answer |-> Missing, chatId |-> Missing,
     related_queries |-> << >>, rows |-> << >>, product |-> NoProduct]

Message(m) == [NoBody EXCEPT !.message = m]

UpstreamError == "upstream request failed"     \* error.message of an axios error
DatabaseError == "database statement failed"   \* error.message of a pg error

\* res.status(500).json({error: "Failed to process query", details: error.message})
QueryFailed(details) ==
    [NoBody EXCEPT !.message = "Failed to process query", !.details = details]

IdleReq ==
    [kind |-> "none", pc |-> "idle", userId |-> Missing, chat_id |-> Missing,
     query |-> Missing, favorite |-> FALSE, finalChatId |-> Missing,
     chatMemory |-> << >>, memoryError |-> FALSE, sent |-> NotSent,
     received |-> JAbsent, attempt |-> 0, data |-> NoData, status |-> 0, body |-> NoBody,
     usedColors |-> {}, product |-> NoProduct]

\* A client can send the chat id c: it is not an identifier the server made
\* for a request that has not been answered yet.
Sendable(c) ==
    Truthy(c) =>
        \A s \in Reqs :
            (req[s].finalChatId = c /\ ~Truthy(req[s].chat_id)) => req[s].pc = "done"

\* The lowest free slot takes the next request.
NextSlot(r) == req[r].pc = "idle" /\ \A s \in Reqs : s < r => req[s].pc # "idle"

Respond(r, code, b) ==
    req' = [req EXCEPT ![r].pc = "done", ![r].status = code, ![r].body = b]

UNCHANGED_DB == UNCHANGED <<sessions, history, memory, products, txn>>

\* A statement of request r ends in an error (thrown into the handler).
StmtError ==
    /\ UNCHANGED <<sessions, history, memory, products>>
    /\ txn' = TxnAfterError

-----------------------------------------------------------------------------
(* retryRequest(fn, retries = 3, delay = 1000) *)

\* A slip of the loop bound: retries counted as the total number of tries.
LoopContinues_short(attempt, retries) == attempt < retries

\* attempts = retries + 1; for (attempt = 0; attempt < attempts; attempt++)
LoopContinues(attempt, retries) == attempt < retries + 1

\* A slip of the test: a wait follows the last failed attempt too.
WaitsBeforeNext_last(attempt, retries) == attempt <= retries

\* if (attempt < retries) wait, else "All retry attempts exhausted"
WaitsBeforeNext(attempt, retries) == attempt < retries

\* delay = Math.floor(delay * 1.5 + Math.random() * 1000), with
\* h = floor(2 * Math.random() * 1000) in 0 .. 1999
NextDelay(delay, h) == (3 * delay + h) \div 2

\* The state of one call of retryRequest.  calls lists the outcome of every
\* invocation of fn so far: ok and the value returned, or not ok and the
\* error thrown.  waits lists the delays slept so far.
IdleRetry ==
    [state |-> "idle", retries |-> 0, attempts |-> 0, attempt |-> 0, delay |-> 0,
     calls |-> << >>, waits |-> << >>, lastError |-> 0, result |-> 0,
     thrown |-> 0]

\* attempt++ and the loop test; after the loop, throw lastError.
RetryAdvance(st) ==
    IF LoopContinues(st.attempt + 1, st.retries)
    THEN [st EXCEPT !.attempt = @ + 1, !.state = "invoke"]
    ELSE [st EXCEPT !.attempt = @ + 1, !.state = "thrown", !.thrown = st.lastError]

\* retryRequest is called: lastError undefined, attempt = 0, the loop test.
RetryCall(retries, delay) ==
    /\ rr.state = "idle"
    /\ rr' = [IdleRetry EXCEPT !.retries = retries, !.attempts = retries + 1,
                              !.delay = delay,
                              !.state = IF LoopContinues(0, retries)
                                        THEN "invoke" ELSE "thrown"]
    /\ UNCHANGED <<sessions, history, memory, products, txn, req>>

\* A slip: the result of fn is kept but not returned, and the loop goes on.
RetryInvoke_noreturn(ok, val) ==
    /\ rr.state = "invoke"
    /\ LET st == [rr EXCEPT !.calls = Append(@, [ok |-> ok, val |-> val])]
       IN rr' = IF ok
                THEN RetryAdvance([st EXCEPT !.result = val])
                ELSE RetryAdvance([st EXCEPT !.lastError = val])
    /\ UNCHANGED <<sessions, history, memory, products, txn, req>>

\* return await fn(): fn returns val (ok) or throws the error val.
RetryInvoke(ok, val) ==
    /\ rr.state = "invoke"
    /\ LET st == [rr EXCEPT !.calls = Append(@, [ok |-> ok, val |-> val])]
       IN rr' = IF ok
                THEN [st EXCEPT !.state = "returned", !.result = val]
                ELSE LET failed == [st EXCEPT !.lastError = val]
                     IN IF WaitsBeforeNext(st.attempt, st.retries)
                        THEN [failed EXCEPT !.state = "wait",
                                            !.waits = Append(@, st.delay)]
                        ELSE RetryAdvance(failed)
    /\ UNCHANGED <<sessions, history, memory, products, txn, req>>

\* The timer of the wait fires: the delay grows, and the loop goes on.
RetryWake(h) ==
    /\ rr.state = "wait"
    /\ rr' = RetryAdvance([rr EXCEPT !.delay = NextDelay(rr.delay, h)])
    /\ UNCHANGED <<sessions, history, memory, products, txn, req>>

-----------------------------------------------------------------------------
(* POST /api/query *)

\* crypto.randomUUID(): an identifier nothing holds yet.
FreshChatId(c) ==
    /\ c \in ChatIds
    /\ ~Has(sessions, c) /\ ~Has(memory, c) /\ ~HasHistory(c)
    /\ \A s \in Reqs : req[s].finalChatId # c /\ req[s].chat_id # c
    /\ txn.state # "idle" =>
          /\ ~Has(txn.snap.s, c) /\ ~Has(txn.snap.m, c)
          /\ \A i \in 1 .. Len(txn.snap.h) : txn.snap.h[i].chat_id # c

\* A slip of the resolution: an identifier is made for every request, and the
\* client's chat_id only selects the memory to load.
QuerySubmit_mint(r, query, chat_id, userId) ==
    /\ NextSlot(r)
    /\ Sendable(chat_id)
    /\ UNCHANGED <<sessions, history, memory, products, txn, rr>>
    /\ LET base == [IdleReq EXCEPT !.kind = "query", !.query = query,
                                   !.chat_id = chat_id, !.userId = userId]
       IN IF ~Truthy(userId)
          THEN req' = [req EXCEPT ![r] = [base EXCEPT !.pc = "done", !.status = 400,
                                               !.body = Message("User ID is required")]]
          ELSE IF Truthy(chat_id)
          THEN \E c \in ChatIds :
                  /\ FreshChatId(c)
                  /\ req' = [req EXCEPT ![r] = [base EXCEPT !.pc = "loadmem",
                                                     !.finalChatId = c]]
          ELSE \E c \in ChatIds :
                  /\ FreshChatId(c)
                  /\ req' = [req EXCEPT ![r] = [base EXCEPT !.pc = "upstream",
                                                     !.finalChatId = c]]

\* The request arrives: validation, finalChatId, and either the memory query
\* or the first upstream call is issued.
QuerySubmit(r, query, chat_id, userId) ==
    /\ NextSlot(r)
    /\ Sendable(chat_id)
    /\ UNCHANGED <<sessions, history, memory, products, txn, rr>>
    /\ LET base == [IdleReq EXCEPT !.kind = "query", !.query = query,
                                   !.chat_id = chat_id, !.userId = userId]
       IN IF ~Truthy(userId)
          THEN req' = [req EXCEPT ![r] = [base EXCEPT !.pc = "done", !.status = 400,
                                               !.body = Message("User ID is required")]]
          ELSE IF Truthy(chat_id)
          THEN req' = [req EXCEPT ![r] = [base EXCEPT !.pc = "loadmem",
                                               !.finalChatId = chat_id]]
          ELSE \E c \in ChatIds :
                  /\ FreshChatId(c)
                  /\ req' = [req EXCEPT ![r] = [base EXCEPT !.pc = "upstream",
                                                     !.finalChatId = c]]

\* A slip of the memory query: SELECT memory FROM chat_memory without the
\* WHERE clause, the first row of the table is taken whatever its chat_id.
QueryLoadMemory_anychat(r, fail) ==
    /\ req[r].kind = "query" /\ req[r].pc = "loadmem"
    /\ UNCHANGED rr
    /\ IF fail \/ StmtRejected
       THEN /\ StmtError
            /\ req' = [req EXCEPT ![r].pc = "upstream", ![r].memoryError = TRUE]
       ELSE /\ UNCHANGED_DB
            /\ IF DOMAIN memory = {}
               THEN req' = [req EXCEPT ![r].pc = "upstream"]
               ELSE \E k \in DOMAIN memory :
                       req' = [req EXCEPT ![r].pc = "upstream",
                                          ![r].chatMemory = memory[k]]

\* A slip of the error handling: the memory query is not in a try/catch of
\* its own, and its error ends the request.
QueryLoadMemory_abort(r, fail) ==
    /\ req[r].kind = "query" /\ req[r].pc = "loadmem"
    /\ UNCHANGED rr
    /\ IF fail \/ StmtRejected
       THEN /\ StmtError
            /\ req' = [req EXCEPT ![r].pc = "done", ![r].status = 500,
                                  ![r].memoryError = TRUE,
                                  ![r].body = QueryFailed(DatabaseError)]
       ELSE /\ UNCHANGED_DB
            /\ req' = [req EXCEPT ![r].pc = "upstream",
                                  ![r].chatMemory =
                                      IF Has(memory, req[r].chat_id)
                                      THEN memory[req[r].chat_id]
                                      ELSE << >>]

\* SELECT memory FROM chat_memory WHERE chat_id = $1, inside its own try/catch:
\* catch (memoryError) logs the error and the handler goes on with
\* chatMemory = [].
QueryLoadMemory(r, fail) ==
    /\ req[r].kind = "query" /\ req[r].pc = "loadmem"
    /\ UNCHANGED rr
    /\ IF fail \/ StmtRejected
       THEN /\ StmtError
            /\ req' = [req EXCEPT ![r].pc = "upstream", ![r].memoryError = TRUE]
       ELSE /\ UNCHANGED_DB
            /\ req' = [req EXCEPT ![r].pc = "upstream",
                                  ![r].chatMemory =
                                      IF Has(memory, req[r].chat_id)
                                      THEN memory[req[r].chat_id]
                                      ELSE << >>]

\* A slip of the error path: when the last attempt has failed, the error is
\* logged and nothing is answered.
QueryUpstream_silent(r, ok, answer, chat_name, related, picks, channels) ==
    /\ req[r].kind = "query" /\ req[r].pc = "upstream"
    /\ UNCHANGED <<sessions, history, memory, products, txn, rr>>
    /\ picks \in Picks(AdditionalCount(RelatedList(related)))
    /\ LET sent == [chat_id |-> req[r].finalChatId, memory |-> req[r].chatMemory]
       IN IF ok
          THEN req' = [req EXCEPT
                          ![r].pc = "ins_session", ![r].attempt = 0, ![r].sent = sent,
                          ![r].received = related,
                          ![r].data = [answer |-> answer, chat_name |-> chat_name,
                                       related_queries |->
                                           NormalizeRelated(related, req[r].query, picks),
                                       channels |-> ReceivedChannels(channels)]]
          ELSE IF LoopContinues(req[r].attempt + 1, QueryRetries)
               THEN req' = [req EXCEPT ![r].attempt = @ + 1, ![r].sent = sent]
               ELSE req' = [req EXCEPT ![r].attempt = 0, ![r].sent = sent,
                                       ![r].pc = "failed"]

\* A slip of the order of the steps: the session row is created when the
\* request is forwarded, before the AI backend has answered.
QueryUpstream_session(r, ok, answer, chat_name, related, picks, channels) ==
    /\ req[r].kind = "query" /\ req[r].pc = "upstream"
    /\ UNCHANGED <<history, memory, products, txn, rr>>
    /\ sessions' = IF Has(sessions, req[r].finalChatId)
                   THEN sessions
                   ELSE Put(sessions, req[r].finalChatId,
                            [user_id |-> req[r].userId, name |-> DefaultChatName,
                             favorite |-> FALSE])
    /\ picks \in Picks(AdditionalCount(RelatedList(related)))
    /\ LET sent == [chat_id |-> req[r].finalChatId, memory |-> req[r].chatMemory]
       IN IF ok
          THEN req' = [req EXCEPT
                          ![r].pc = "ins_session", ![r].attempt = 0, ![r].sent = sent,
                          ![r].received = related,
                          ![r].data = [answer |-> answer, chat_name |-> chat_name,
                                       related_queries |->
                                           NormalizeRelated(related, req[r].query, picks),
                                       channels |-> ReceivedChannels(channels)]]
          ELSE IF LoopContinues(req[r].attempt + 1, QueryRetries)
               THEN req' = [req EXCEPT ![r].attempt = @ + 1, ![r].sent = sent]
               ELSE req' = [req EXCEPT ![r].attempt = 0, ![r].sent = sent,
                                       ![r].pc = "done", ![r].status = 500,
                                       ![r].body = QueryFailed(UpstreamError)]

\* One invocation of the function retryRequest(fn, 5, 5000) wraps: axios.post
\* to the AI backend with the body {query, org_query, chat_id: finalChatId,
\* userId, memory: chatMemory}.  ok: the call returned 2xx with a body of
\* answer, chat_name and related_queries; then related_queries is padded with
\* the picks of generateAdditionalQueries and normalised.
\* attempt is the loop variable of retryRequest, gone when retryRequest ends.
QueryUpstream(r, ok, answer, chat_name, related, picks, channels) ==
    /\ req[r].kind = "query" /\ req[r].pc = "upstream"
    /\ UNCHANGED <<sessions, history, memory, products, txn, rr>>
    /\ picks \in Picks(AdditionalCount(RelatedList(related)))
    /\ LET sent == [chat_id |-> req[r].finalChatId, memory |-> req[r].chatMemory]
       IN IF ok
          THEN req' = [req EXCEPT
                          ![r].pc = "ins_session", ![r].attempt = 0, ![r].sent = sent,
                          ![r].received = related,
                          ![r].data = [answer |-> answer, chat_name |-> chat_name,
                                       related_queries |->
                                           NormalizeRelated(related, req[r].query, picks),
                                       channels |-> ReceivedChannels(channels)]]
          ELSE IF LoopContinues(req[r].attempt + 1, QueryRetries)
               THEN req' = [req EXCEPT ![r].attempt = @ + 1, ![r].sent = sent]
               ELSE req' = [req EXCEPT ![r].attempt = 0, ![r].sent = sent,
                                       ![r].pc = "done", ![r].status = 500,
                                       ![r].body = QueryFailed(UpstreamError)]

\* A slip of the conflict clause: ON CONFLICT (chat_id) DO UPDATE SET name = $2,
\* the name of the latest response replaces the stored one.
QueryInsertSession_update(r, fail) ==
    /\ req[r].kind = "query" /\ req[r].pc = "ins_session"
    /\ UNCHANGED rr
    /\ IF fail \/ StmtRejected
       THEN /\ StmtError
            /\ Respond(r, 500, QueryFailed(DatabaseError))
       ELSE /\ LET c == req[r].finalChatId
                   name == IF Truthy(req[r].data.chat_name)
                           THEN req[r].data.chat_name ELSE DefaultChatName
               IN sessions' = IF Has(sessions, c)
                              THEN [sessions EXCEPT ![c].name = name]
                              ELSE Put(sessions, c,
                                       [user_id |-> req[r].userId, name |-> name,
                                        favorite |-> FALSE])
            /\ UNCHANGED <<history, memory, products, txn>>
            /\ req' = [req EXCEPT ![r].pc = "ins_history"]

\* INSERT INTO chat_sessions ... ON CONFLICT (chat_id) DO NOTHING
QueryInsertSession(r, fail) ==
    /\ req[r].kind = "query" /\ req[r].pc = "ins_session"
    /\ UNCHANGED rr
    /\ IF fail \/ StmtRejected
       THEN /\ StmtError
            /\ Respond(r, 500, QueryFailed(DatabaseError))
       ELSE /\ LET c == req[r].finalChatId
                   name == IF Truthy(req[r].data.chat_name)
                           THEN req[r].data.chat_name ELSE DefaultChatName
               IN sessions' = IF Has(sessions, c)
                              THEN sessions
                              ELSE Put(sessions, c,
                                       [user_id |-> req[r].userId, name |-> name,
                                        favorite |-> FALSE])
            /\ UNCHANGED <<history, memory, products, txn>>
            /\ req' = [req EXCEPT ![r].pc = "ins_history"]

\* A slip of the error handling: an error of the history insert is logged
\* and the handler goes on.
QueryInsertHistory_swallow(r, fail) ==
    /\ req[r].kind = "query" /\ req[r].pc = "ins_history"
    /\ UNCHANGED rr
    /\ LET c == req[r].finalChatId
           violation == req[r].query = Missing \/ ~Has(sessions, c)
       IN IF fail \/ StmtRejected \/ violation
          THEN /\ StmtError
               /\ req' = [req EXCEPT ![r].pc = "put_memory"]
          ELSE /\ history' = Append(history,
                                [chat_id |-> c, user_id |-> req[r].userId,
                                 query |-> req[r].query,
                                 answer |-> req[r].data.answer,
                                 pdf_references |->
                                     OrEmptyList(req[r].data.channels["pdf_references"]),
                                 similar_images |-> JArray(<< >>),
                                 online_images |->
                                     OrEmptyList(req[r].data.channels["online_images"]),
                                 online_videos |->
                                     OrEmptyList(req[r].data.channels["online_videos"]),
                                 online_links |->
                                     OrEmptyList(req[r].data.channels["online_links"]),
                                 relevant_queries |-> req[r].data.related_queries,
                                 product_colors |-> JArray(<< >>),
                                 created_at |-> CurrentTimestamp])
               /\ UNCHANGED <<sessions, memory, products, txn>>
               /\ req' = [req EXCEPT ![r].pc = "put_memory"]

\* INSERT INTO chat_history (chat_id, query, answer, pdf_references,
\* online_images, online_videos, online_links, relevant_queries, user_id) with
\* JSON.stringify(data.<field> || []) for each list, a JSONB column holding the
\* same JSON value; similar_images and product_colors, which the statement
\* does not name, by their DEFAULT '[]', and created_at by its DEFAULT.
\* query TEXT NOT NULL; chat_id REFERENCES chat_sessions(chat_id)
QueryInsertHistory(r, fail) ==
    /\ req[r].kind = "query" /\ req[r].pc = "ins_history"
    /\ UNCHANGED rr
    /\ LET c == req[r].finalChatId
           violation == req[r].query = Missing \/ ~Has(sessions, c)
       IN IF fail \/ StmtRejected \/ violation
          THEN /\ StmtError
               /\ Respond(r, 500, QueryFailed(DatabaseError))
          ELSE /\ history' = Append(history,
                                [chat_id |-> c, user_id |-> req[r].userId,
                                 query |-> req[r].query,
                                 answer |-> req[r].data.answer,
                                 pdf_references |->
                                     OrEmptyList(req[r].data.channels["pdf_references"]),
                                 similar_images |-> JArray(<< >>),
                                 online_images |->
                                     OrEmptyList(req[r].data.channels["online_images"]),
                                 online_videos |->
                                     OrEmptyList(req[r].data.channels["online_videos"]),
                                 online_links |->
                                     OrEmptyList(req[r].data.channels["online_links"]),
                                 relevant_queries |-> req[r].data.related_queries,
                                 product_colors |-> JArray(<< >>),
                                 created_at |-> CurrentTimestamp])
               /\ UNCHANGED <<sessions, memory, products, txn>>
               /\ req' = [req EXCEPT ![r].pc = "put_memory"]

\* updatedMemory = [...chatMemory, {role: "user", content: query},
\*                  {role: "assistant", content: data.answer}]
updatedMemory(chatMemory, query, answer) ==
    chatMemory \o << [role |-> "user", content |-> query],
                     [role |-> "assistant", content |-> answer] >>

\* A slip of the truncation: updatedMemory.slice(0, 20) keeps the oldest messages.
limitedMemory_head(chatMemory, query, answer) ==
    SubSeq(updatedMemory(chatMemory, query, answer), 1,
           Min(Len(chatMemory) + 2, MemoryLimit))

\* A slip of the truncation: updatedMemory.slice(-19), an odd number of
\* messages is kept.
limitedMemory_odd(chatMemory, query, answer) ==
    SliceLast(updatedMemory(chatMemory, query, answer), MemoryLimit - 1)

\* A slip of the truncation: the limit is applied to what was loaded, before
\* the two new messages are appended.
limitedMemory_early(chatMemory, query, answer) ==
    updatedMemory(SliceLast(chatMemory, MemoryLimit), query, answer)

\* limitedMemory = updatedMemory.slice(-20)
limitedMemory(chatMemory, query, answer) ==
    SliceLast(updatedMemory(chatMemory, query, answer), MemoryLimit)

\* A slip of the upsert: the exchange is appended to the memory stored at the
\* time of the upsert, not to the memory the request loaded.
QueryPutMemory_merge(r, fail) ==
    /\ req[r].kind = "query" /\ req[r].pc = "put_memory"
    /\ UNCHANGED rr
    /\ LET c == req[r].finalChatId
           violation == ~Has(sessions, c)
       IN IF fail \/ StmtRejected \/ violation
          THEN /\ StmtError
               /\ Respond(r, 500, QueryFailed(DatabaseError))
          ELSE /\ memory' = Put(memory, c,
                                limitedMemory(IF Has(memory, c) THEN memory[c] ELSE << >>, req[r].query,
                                              req[r].data.answer))
               /\ UNCHANGED <<sessions, history, products, txn>>
               /\ Respond(r, 200,
                          [NoBody EXCEPT !.answer = req[r].data.answer,
                                         !.related_queries = req[r].data.related_queries,
                                         !.chatId = c])

\* INSERT INTO chat_memory ... ON CONFLICT (chat_id) DO UPDATE SET memory = $2,
\* then res.json({...data, chatId: finalChatId})
QueryPutMemory(r, fail) ==
    /\ req[r].kind = "query" /\ req[r].pc = "put_memory"
    /\ UNCHANGED rr
    /\ LET c == req[r].finalChatId
           violation == ~Has(sessions, c)
       IN IF fail \/ StmtRejected \/ violation
          THEN /\ StmtError
               /\ Respond(r, 500, QueryFailed(DatabaseError))
          ELSE /\ memory' = Put(memory, c,
                                limitedMemory(req[r].chatMemory, req[r].query,
                                              req[r].data.answer))
               /\ UNCHANGED <<sessions, history, products, txn>>
               /\ Respond(r, 200,
                          [NoBody EXCEPT !.answer = req[r].data.answer,
                                         !.related_queries = req[r].data.related_queries,
                                         !.chatId = c])

\* The response has been delivered: the slot is free for the next request.
Forget(r) ==
    /\ req[r].pc = "done"
    /\ req' = [req EXCEPT ![r] = IdleReq]
    /\ UNCHANGED <<sessions, history, memory, products, txn, rr>>

-----------------------------------------------------------------------------
(* GET /api/chat-history/:chatId *)

HistorySubmit(r, chatId, userId) ==
    /\ NextSlot(r)
    /\ Sendable(chatId)
    /\ UNCHANGED <<sessions, history, memory, products, txn, rr>>
    /\ LET base == [IdleReq EXCEPT !.kind = "history", !.chat_id = chatId,
                                   !.userId = userId]
       IN req' = [req EXCEPT ![r] =
                     IF ~Truthy(chatId)
                     THEN [base EXCEPT !.pc = "done", !.status = 400,
                                       !.body = Message("Chat ID is required")]
                     ELSE IF ~Truthy(userId)
                     THEN [base EXCEPT !.pc = "done", !.status = 400,
                                       !.body = Message("User ID is required")]
                     ELSE [base EXCEPT !.pc = "h_check"]]

\* SELECT chat_id FROM chat_sessions WHERE chat_id = $1 AND user_id = $2
OwnsSession(c, u) == Has(sessions, c) /\ sessions[c].user_id = u

HistoryCheck(r, fail) ==
    /\ req[r].kind = "history" /\ req[r].pc = "h_check"
    /\ UNCHANGED rr
    /\ IF fail \/ StmtRejected
       THEN StmtError /\ Respond(r, 500, Message("Server error"))
       ELSE /\ UNCHANGED_DB
            /\ IF ~OwnsSession(req[r].chat_id, req[r].userId)
               THEN Respond(r, 403, Message("Access denied"))
               ELSE req' = [req EXCEPT ![r].pc = "h_fetch"]

\* SELECT * FROM chat_history WHERE chat_id = $1 ORDER BY created_at ASC;
\* res.json(result.rows)
HistoryFetch(r, fail) ==
    /\ req[r].kind = "history" /\ req[r].pc = "h_fetch"
    /\ UNCHANGED rr
    /\ IF fail \/ StmtRejected
       THEN StmtError /\ Respond(r, 500, Message("Server error"))
       ELSE /\ UNCHANGED_DB
            /\ \E rows \in OrderedByCreatedAt(HistoryOf(history, req[r].chat_id)) :
                  Respond(r, 200, [NoBody EXCEPT !.rows = rows])

-----------------------------------------------------------------------------
(* POST /api/update-chat-favorite *)

FavoriteSubmit(r, chatId, userId, favorite) ==
    /\ NextSlot(r)
    /\ Sendable(chatId)
    /\ UNCHANGED <<sessions, history, memory, products, txn, rr>>
    /\ LET base == [IdleReq EXCEPT !.kind = "favorite", !.chat_id = chatId,
                                   !.userId = userId, !.favorite = favorite]
       IN req' = [req EXCEPT ![r] =
                     IF ~Truthy(chatId)
                     THEN [base EXCEPT !.pc = "done", !.status = 400,
                                       !.body = Message("Chat ID is required")]
                     ELSE IF ~Truthy(userId)
                     THEN [base EXCEPT !.pc = "done", !.status = 400,
                                       !.body = Message("User ID is required")]
                     ELSE [base EXCEPT !.pc = "f_check"]]

FavoriteCheck(r, fail) ==
    /\ req[r].kind = "favorite" /\ req[r].pc = "f_check"
    /\ UNCHANGED rr
    /\ IF fail \/ StmtRejected
       THEN StmtError /\ Respond(r, 500, Message("Server error"))
       ELSE /\ UNCHANGED_DB
            /\ IF ~OwnsSession(req[r].chat_id, req[r].userId)
               THEN Respond(r, 403, Message("Access denied"))
               ELSE req' = [req EXCEPT ![r].pc = "f_update"]

\* UPDATE chat_sessions SET favorite = $1 WHERE chat_id = $2 AND user_id = $3
FavoriteUpdate(r, fail) ==
    /\ req[r].kind = "favorite" /\ req[r].pc = "f_update"
    /\ UNCHANGED rr
    /\ IF fail \/ StmtRejected
       THEN StmtError /\ Respond(r, 500, Message("Server error"))
       ELSE IF ~OwnsSession(req[r].chat_id, req[r].userId)
       THEN UNCHANGED_DB /\ Respond(r, 404, Message("Chat not found"))
       ELSE /\ sessions' = [sessions EXCEPT ![req[r].chat_id].favorite = req[r].favorite]
            /\ UNCHANGED <<history, memory, products, txn>>
            /\ Respond(r, 200, Message("Chat favorite status updated successfully"))

-----------------------------------------------------------------------------
(* DELETE /api/chat *)

DeleteSubmit(r, chatId, userId) ==
    /\ NextSlot(r)
    /\ Sendable(chatId)
    /\ UNCHANGED <<sessions, history, memory, products, txn, rr>>
    /\ LET base == [IdleReq EXCEPT !.kind = "delete", !.chat_id = chatId,
                                   !.userId = userId]
       IN req' = [req EXCEPT ![r] =
                     IF ~Truthy(chatId)
                     THEN [base EXCEPT !.pc = "done", !.status = 400,
                                       !.body = Message("Chat ID is required")]
                     ELSE IF ~Truthy(userId)
                     THEN [base EXCEPT !.pc = "done", !.status = 400,
                                       !.body = Message("User ID is required")]
                     ELSE [base EXCEPT !.pc = "d_begin"]]

\* await db.query("BEGIN"), outside the inner try: an error goes to the outer
\* catch, which answers 500 without a ROLLBACK.
DeleteBegin(r) ==
    /\ req[r].kind = "delete" /\ req[r].pc = "d_begin"
    /\ UNCHANGED <<sessions, history, memory, products, rr>>
    /\ IF StmtRejected
       THEN UNCHANGED txn /\ Respond(r, 500, Message("Server error"))
       ELSE /\ txn' = TxnBegin
            /\ req' = [req EXCEPT ![r].pc = "d_check"]

\* The ownership check inside the transaction.
DeleteCheck(r, fail) ==
    /\ req[r].kind = "delete" /\ req[r].pc = "d_check"
    /\ UNCHANGED rr
    /\ IF fail \/ StmtRejected
       THEN StmtError /\ req' = [req EXCEPT ![r].pc = "d_rollback", ![r].status = 500]
       ELSE /\ UNCHANGED_DB
            /\ IF ~OwnsSession(req[r].chat_id, req[r].userId)
               THEN req' = [req EXCEPT ![r].pc = "d_rollback", ![r].status = 403]
               ELSE req' = [req EXCEPT ![r].pc = "d_memory"]

\* DELETE FROM chat_memory WHERE chat_id = $1
DeleteMemory(r, fail) ==
    /\ req[r].kind = "delete" /\ req[r].pc = "d_memory"
    /\ UNCHANGED rr
    /\ IF fail \/ StmtRejected
       THEN StmtError /\ req' = [req EXCEPT ![r].pc = "d_rollback", ![r].status = 500]
       ELSE /\ memory' = Remove(memory, req[r].chat_id)
            /\ UNCHANGED <<sessions, history, products, txn>>
            /\ req' = [req EXCEPT ![r].pc = "d_history"]

\* DELETE FROM chat_history WHERE chat_id = $1
DeleteHistory(r, fail) ==
    /\ req[r].kind = "delete" /\ req[r].pc = "d_history"
    /\ UNCHANGED rr
    /\ IF fail \/ StmtRejected
       THEN StmtError /\ req' = [req EXCEPT ![r].pc = "d_rollback", ![r].status = 500]
       ELSE /\ history' = SelectSeq(history, LAMBDA row : row.chat_id # req[r].chat_id)
            /\ UNCHANGED <<sessions, memory, products, txn>>
            /\ req' = [req EXCEPT ![r].pc = "d_session"]

\* A slip of the schema: chat_history.chat_id and chat_memory.chat_id without
\* REFERENCES chat_sessions(chat_id), the session row is deleted whatever
\* refers to it.
DeleteSession_unreferenced(r, fail) ==
    /\ req[r].kind = "delete" /\ req[r].pc = "d_session"
    /\ UNCHANGED rr
    /\ LET c == req[r].chat_id
           found == OwnsSession(c, req[r].userId)
       IN IF fail \/ StmtRejected
          THEN StmtError /\ req' = [req EXCEPT ![r].pc = "d_rollback", ![r].status = 500]
          ELSE IF ~found
          THEN UNCHANGED_DB /\ req' = [req EXCEPT ![r].pc = "d_rollback", ![r].status = 404]
          ELSE /\ sessions' = Remove(sessions, c)
               /\ UNCHANGED <<history, memory, products, txn>>
               /\ req' = [req EXCEPT ![r].pc = "d_commit"]

\* DELETE FROM chat_sessions WHERE chat_id = $1 AND user_id = $2; a row that
\* chat_history or chat_memory still references cannot be deleted.
DeleteSession(r, fail) ==
    /\ req[r].kind = "delete" /\ req[r].pc = "d_session"
    /\ UNCHANGED rr
    /\ LET c == req[r].chat_id
           found == OwnsSession(c, req[r].userId)
           violation == found /\ SessionReferenced(c)
       IN IF fail \/ StmtRejected \/ violation
          THEN StmtError /\ req' = [req EXCEPT ![r].pc = "d_rollback", ![r].status = 500]
          ELSE IF ~found
          THEN UNCHANGED_DB /\ req' = [req EXCEPT ![r].pc = "d_rollback", ![r].status = 404]
          ELSE /\ sessions' = Remove(sessions, c)
               /\ UNCHANGED <<history, memory, products, txn>>
               /\ req' = [req EXCEPT ![r].pc = "d_commit"]

\* await db.query("COMMIT"); res.json({message: "Chat deleted successfully"})
DeleteCommit(r) ==
    /\ req[r].kind = "delete" /\ req[r].pc = "d_commit"
    /\ UNCHANGED rr
    /\ SetTables(Committed)
    /\ txn' = TxnIdle
    /\ Respond(r, 200, Message("Chat deleted successfully"))

\* await db.query("ROLLBACK"), then 403 "Access denied", 404 "Chat not found",
\* or the rethrown error answered by the outer catch with 500.
DeleteRollback(r) ==
    /\ req[r].kind = "delete" /\ req[r].pc = "d_rollback"
    /\ UNCHANGED rr
    /\ SetTables(Restored)
    /\ txn' = TxnIdle
    /\ Respond(r, req[r].status,
               Message(CASE req[r].status = 403 -> "Access denied"
                         [] req[r].status = 404 -> "Chat not found"
                         [] OTHER -> "Server error"))

-----------------------------------------------------------------------------
(* POST /api/products *)

colors == <<"red", "purple", "orange", "green", "blue", "white">>

\* retryRequest(fn, 2, 1000) around the call of /api/generate-product-queries
ProductRetries == 2

\* A slip of the WHERE clause: SELECT color FROM products, the colors of the
\* products of every user and of the products without a user.
usedColors_all(userId) == {products[i].color : i \in 1 .. Len(products)}

\* SELECT color FROM products WHERE user_id = $1, then rows.map((p) => p.color)
usedColors(userId) ==
    {products[i].color : i \in {j \in 1 .. Len(products) : products[j].user_id = userId}}

\* colors.find((c) => !usedColors.includes(c)) || colors[0]
availableColor(used) ==
    LET free == {i \in 1 .. Len(colors) : colors[i] \notin used}
    IN IF free = {} THEN colors[1]
       ELSE colors[CHOOSE i \in free : \A j \in free : i <= j]

\* res.status(500).json({error: "Failed to create product", details: error.message})
ProductFailed(details) ==
    [NoBody EXCEPT !.message = "Failed to create product", !.details = details]

\* res.json(result.rows[0])
ProductCreated(row) == [NoBody EXCEPT !.product = row]

\* The request arrives; without userId it is answered 400 before any statement.
ProductSubmit(r, userId) ==
    /\ NextSlot(r)
    /\ UNCHANGED_DB /\ UNCHANGED rr
    /\ req' = [req EXCEPT ![r] =
                  LET base == [IdleReq EXCEPT !.kind = "product", !.userId = userId]
                  IN IF ~Truthy(userId)
                     THEN [base EXCEPT !.pc = "done", !.status = 400,
                                       !.body = Message("User ID is required")]
                     ELSE [base EXCEPT !.pc = "p_select"]]

\* The colors of the user's products are read.
ProductSelect(r, fail) ==
    /\ req[r].kind = "product" /\ req[r].pc = "p_select"
    /\ UNCHANGED rr
    /\ IF fail \/ StmtRejected
       THEN /\ StmtError
            /\ Respond(r, 500, ProductFailed(DatabaseError))
       ELSE /\ UNCHANGED_DB
            /\ req' = [req EXCEPT ![r].pc = "p_insert",
                                  ![r].usedColors = usedColors(req[r].userId)]

\* INSERT INTO products (title, info, color, user_id) ... RETURNING *
ProductInsert(r, fail) ==
    /\ req[r].kind = "product" /\ req[r].pc = "p_insert"
    /\ UNCHANGED rr
    /\ IF fail \/ StmtRejected
       THEN /\ StmtError
            /\ Respond(r, 500, ProductFailed(DatabaseError))
       ELSE /\ LET row == [user_id |-> req[r].userId,
                           color |-> availableColor(req[r].usedColors)]
               IN /\ products' = Append(products, row)
                  /\ req' = [req EXCEPT ![r].pc = "p_generate", ![r].product = row]
            /\ UNCHANGED <<sessions, history, memory, txn>>

\* One attempt of retryRequest(fn, 2, 1000) at POST /api/generate-product-queries.
\* When it succeeds, and when the last attempt has failed (the inner catch logs
\* the error), the handler answers with the row created.
ProductGenerate(r, ok) ==
    /\ req[r].kind = "product" /\ req[r].pc = "p_generate"
    /\ UNCHANGED_DB /\ UNCHANGED rr
    /\ IF ok
       THEN Respond(r, 200, ProductCreated(req[r].product))
       ELSE IF LoopContinues(req[r].attempt + 1, ProductRetries)
            THEN req' = [req EXCEPT ![r].attempt = @ + 1]
            ELSE req' = [req EXCEPT ![r].attempt = @ + 1, ![r].pc = "done",
                                    ![r].status = 200,
                                    ![r].body = ProductCreated(req[r].product)]

-----------------------------------------------------------------------------
(* Initial state: empty tables, no request, retryRequest not called *)

Init ==
    /\ sessions = NoRows
    /\ history = << >>
    /\ memory = NoRows
    /\ products = SeedProducts
    /\ txn = TxnIdle
    /\ req = [r \in Reqs |-> IdleReq]
    /\ rr = IdleRetry

-----------------------------------------------------------------------------
(* Every handler, any requests, handled concurrently; any statement may    *)
(* end in an error.                                                        *)

UserInputs == Users \cup {Missing}
ChatInputs == ChatIds \cup {Missing}
QueryInputs == {"q1", "", Missing}

\* The steps of every handler; Errors holds TRUE when a statement may end in
\* an error of its own (lost connection, timeout, ...), and always FALSE.
SubmitQuery ==
    \E r \in Reqs, q \in QueryInputs, c \in ChatInputs, u \in UserInputs :
        QuerySubmit(r, q, c, u)

LoadMemory(Errors) == \E r \in Reqs, fail \in Errors : QueryLoadMemory(r, fail)

\* A related_queries field of five suggestions: nothing is added to it.
FiveRelated == JArray([i \in 1 .. RelatedTarget |-> JSuggestion("r1", "x1")])

Upstream ==
    \E r \in Reqs, ok \in BOOLEAN : QueryUpstream(r, ok, "a1", "n1", FiveRelated, << >>, NoChannels)

InsertSession(Errors) == \E r \in Reqs, fail \in Errors : QueryInsertSession(r, fail)

InsertHistory(Errors) == \E r \in Reqs, fail \in Errors : QueryInsertHistory(r, fail)

PutMemory(Errors) == \E r \in Reqs, fail \in Errors : QueryPutMemory(r, fail)

\* The answer of a request is delivered.
ForgetAnswered == \E r \in Reqs : Forget(r)

SubmitHistory == \E r \in Reqs, c \in ChatIds, u \in UserInputs : HistorySubmit(r, c, u)

CheckHistory(Errors) == \E r \in Reqs, fail \in Errors : HistoryCheck(r, fail)

FetchHistory(Errors) == \E r \in Reqs, fail \in Errors : HistoryFetch(r, fail)

SubmitFavorite ==
    \E r \in Reqs, c \in ChatInputs, u \in UserInputs : FavoriteSubmit(r, c, u, TRUE)

CheckFavorite(Errors) == \E r \in Reqs, fail \in Errors : FavoriteCheck(r, fail)

UpdateFavorite(Errors) == \E r \in Reqs, fail \in Errors : FavoriteUpdate(r, fail)

SubmitDelete == \E r \in Reqs, c \in ChatInputs, u \in UserInputs : DeleteSubmit(r, c, u)

BeginDelete == \E r \in Reqs : DeleteBegin(r)

CheckDelete(Errors) == \E r \in Reqs, fail \in Errors : DeleteCheck(r, fail)

DeleteMemoryRow(Errors) == \E r \in Reqs, fail \in Errors : DeleteMemory(r, fail)

DeleteHistoryRows(Errors) == \E r \in Reqs, fail \in Errors : DeleteHistory(r, fail)

DeleteSessionRow(Errors) == \E r \in Reqs, fail \in Errors : DeleteSession(r, fail)

CommitDelete == \E r \in Reqs : DeleteCommit(r)

RollbackDelete == \E r \in Reqs : DeleteRollback(r)

NextWith(Errors) ==
    \/ SubmitQuery
    \/ LoadMemory(Errors)
    \/ Upstream
    \/ InsertSession(Errors)
    \/ InsertHistory(Errors)
    \/ PutMemory(Errors)
    \/ SubmitHistory
    \/ CheckHistory(Errors)
    \/ FetchHistory(Errors)
    \/ SubmitFavorite
    \/ CheckFavorite(Errors)
    \/ UpdateFavorite(Errors)
    \/ SubmitDelete
    \/ BeginDelete
    \/ CheckDelete(Errors)
    \/ DeleteMemoryRow(Errors)
    \/ DeleteHistoryRows(Errors)
    \/ DeleteSessionRow(Errors)
    \/ CommitDelete
    \/ RollbackDelete

\* Any statement may end in an error.
Next == NextWith(BOOLEAN)

\* No statement ends in an error of its own: the only errors are the ones
\* the tables' constraints and an aborted transaction raise.
NextNoErr == NextWith({FALSE})

\* The server starts on the database a previous run left: empty, or holding
\* what one POST /api/query {query: "q1", chat_id: "c1", userId: "u1"} stores
\* when the AI backend answers "a1" and names the chat "n1".
StoredExchange ==
    [s |-> Put(NoRows, "c1", [user_id |-> "u1", name |-> "n1", favorite |-> FALSE]),
     h |-> << [chat_id |-> "c1", user_id |-> "u1", query |-> "q1", answer |-> "a1",
               pdf_references |-> JArray(<< >>), similar_images |-> JArray(<< >>),
               online_images |-> JArray(<< >>), online_videos |-> JArray(<< >>),
               online_links |-> JArray(<< >>),
               relevant_queries |-> NormalizeRelated(FiveRelated, "q1", << >>),
               product_colors |-> JArray(<< >>),
               created_at |-> 1] >>,
     m |-> Put(NoRows, "c1", limitedMemory(<< >>, "q1", "a1")),
     p |-> SeedProducts]

InitStored ==
    /\ \E t \in {NoSnap, StoredExchange} :
          /\ sessions = t.s
          /\ history = t.h
          /\ memory = t.m
    /\ products = SeedProducts
    /\ txn = TxnIdle
    /\ req = [r \in Reqs |-> IdleReq]
    /\ rr = IdleRetry

Spec == InitStored /\ [][Next]_vars

SpecNoErr == InitStored /\ [][NextNoErr]_vars

-----------------------------------------------------------------------------
(* Queries handled one after the other, on one conversation, no database   *)
(* errors.                                                                 *)

NoneInFlight == \A r \in Reqs : req[r].pc \in {"idle", "done"}

SeqSubmit ==
    /\ NoneInFlight
    /\ Len(history) < MaxSeqRows
    /\ \E q \in Queries : QuerySubmit(1, q, "c1", "u1")

NextSeq ==
    \/ SeqSubmit
    \/ LoadMemory({FALSE})
    \/ Upstream
    \/ InsertSession({FALSE})
    \/ InsertHistory({FALSE})
    \/ PutMemory({FALSE})
    \/ ForgetAnswered

SpecSeq == Init /\ [][NextSeq]_vars

-----------------------------------------------------------------------------
(* Queries only, handled concurrently in two slots, no database errors.    *)

ConcSubmit ==
    /\ Len(history) < MaxConcRows
    /\ \E r \in Reqs : QuerySubmit(r, "q1", "c1", "u1")

NextConc ==
    \/ ConcSubmit
    \/ LoadMemory({FALSE})
    \/ Upstream
    \/ InsertSession({FALSE})
    \/ InsertHistory({FALSE})
    \/ PutMemory({FALSE})
    \/ ForgetAnswered

SpecConc == Init /\ [][NextConc]_vars

-----------------------------------------------------------------------------
(* Queries of two clients on one conversation, handled concurrently; the   *)
(* AI backend answers every call and names the chat as it likes; no        *)
(* database errors.                                                        *)

RaceClients == {[query |-> "q1", userId |-> "u1"], [query |-> "q2", userId |-> "u2"]}

\* chat_name of the upstream response: two names, and none (the default name).
RaceNames == {"n1", "n2", Missing}

RaceSubmit ==
    /\ Len(history) < MaxRaceRows
    /\ \E r \in Reqs, cl \in RaceClients : QuerySubmit(r, cl.query, "c1", cl.userId)

RaceUpstream ==
    \E r \in Reqs, n \in RaceNames :
        QueryUpstream(r, TRUE, "a1", n, FiveRelated, << >>, NoChannels)

NextRace ==
    \/ RaceSubmit
    \/ LoadMemory({FALSE})
    \/ RaceUpstream
    \/ InsertSession({FALSE})
    \/ InsertHistory({FALSE})
    \/ PutMemory({FALSE})
    \/ ForgetAnswered

SpecRace == Init /\ [][NextRace]_vars

-----------------------------------------------------------------------------
(* One query whose upstream response carries any related_queries field:    *)
(* absent, not a list, or a list of up to MaxRelated JSON values.          *)

RelatedItems == {JString("s1"), JSuggestion("r1", "x1"), JTitled("t1"), JNumber(7)}

RelatedFields ==
    {JAbsent, JString("s1")}
        \cup {JArray(l) : l \in UNION {[1 .. n -> RelatedItems] : n \in 0 .. MaxRelated}}

RelatedSubmit == QuerySubmit(1, "q1", "c1", "u1")

RelatedUpstream ==
    /\ req[1].pc = "upstream"
    /\ \E related \in RelatedFields :
          \E picks \in Picks(AdditionalCount(RelatedList(related))) :
              QueryUpstream(1, TRUE, "a1", "n1", related, picks, NoChannels)

NextRelated ==
    \/ RelatedSubmit
    \/ LoadMemory({FALSE})
    \/ RelatedUpstream
    \/ InsertSession({FALSE})
    \/ InsertHistory({FALSE})
    \/ PutMemory({FALSE})

SpecRelated == Init /\ [][NextRelated]_vars

-----------------------------------------------------------------------------
(* One POST /api/query whose upstream response has any of the lists that   *)
(* chat_history has a column for, each present with one item or absent.    *)

ChannelPayloads ==
    {[ch \in ChannelNames |-> IF ch \in present THEN JArray(<< JString(ch) >>) ELSE JAbsent] :
        present \in SUBSET ChannelNames}

ChannelSubmit == QuerySubmit(1, "q1", "c1", "u1")

ChannelUpstream ==
    /\ req[1].pc = "upstream"
    /\ \E channels \in ChannelPayloads :
          QueryUpstream(1, TRUE, "a1", "n1", FiveRelated, << >>, channels)

NextChannel ==
    \/ ChannelSubmit
    \/ LoadMemory({FALSE})
    \/ ChannelUpstream
    \/ InsertSession({FALSE})
    \/ InsertHistory({FALSE})
    \/ PutMemory({FALSE})

SpecChannel == Init /\ [][NextChannel]_vars

-----------------------------------------------------------------------------
(* One user: one DELETE /api/chat for c2, a chat id that has no session,   *)
(* sent while no history is stored; until it is answered, up to            *)
(* MaxOrderRows queries on the conversation c1; reads of the history of c1 *)
(* once these rows are stored.  The slot of an answered query or read is   *)
(* used again.  The AI backend answers every call; no database errors of   *)
(* their own.                                                              *)

\* The requests of the given kind that have not been answered yet.
InFlight(kind) == {r \in Reqs : req[r].kind = kind /\ req[r].pc \notin {"idle", "done"}}

OrderSubmitQuery ==
    /\ Len(history) + Cardinality(InFlight("query")) < MaxOrderRows
    /\ \A r \in Reqs : ~(req[r].kind = "delete" /\ req[r].pc = "done")
    /\ \E r \in Reqs, q \in Queries : QuerySubmit(r, q, "c1", "u1")

OrderSubmitHistory ==
    /\ Len(history) = MaxOrderRows
    /\ \E r \in Reqs : HistorySubmit(r, "c1", "u1")

OrderSubmitDelete ==
    /\ history = << >> /\ txn.state = "idle"
    /\ \A r \in Reqs : req[r].kind # "delete"
    /\ \E r \in Reqs : DeleteSubmit(r, "c2", "u1")

OrderUpstream ==
    \E r \in Reqs : QueryUpstream(r, TRUE, "a1", "n1", FiveRelated, << >>, NoChannels)

OrderForget == \E r \in Reqs : req[r].kind # "delete" /\ Forget(r)

NextOrder ==
    \/ OrderSubmitQuery
    \/ OrderSubmitHistory
    \/ OrderSubmitDelete
    \/ OrderUpstream
    \/ OrderForget
    \/ LoadMemory({FALSE})
    \/ InsertSession({FALSE})
    \/ InsertHistory({FALSE})
    \/ PutMemory({FALSE})
    \/ CheckHistory({FALSE})
    \/ FetchHistory({FALSE})
    \/ BeginDelete
    \/ CheckDelete({FALSE})
    \/ RollbackDelete

SpecOrder == Init /\ [][NextOrder]_vars

-----------------------------------------------------------------------------
(* Queries on one conversation, from no stored memory: two at a time while *)
(* fewer than MaxPairConc rows are stored, then each one after the answer  *)
(* to the one before has been delivered, up to MaxPairRows rows.  The AI   *)
(* backend answers "a1" to "q1" and "a2" to "q2"; the memory query may     *)
(* fail.                                                                   *)

PairAnswer(q) == IF q = "q1" THEN "a1" ELSE "a2"

PairSubmit ==
    /\ Len(history) + Cardinality(InFlight("query")) < MaxPairRows
    /\ (\A r \in Reqs : req[r].pc = "idle") \/ Len(history) < MaxPairConc
    /\ \E r \in Reqs, q \in Queries : QuerySubmit(r, q, "c1", "u1")

PairUpstream ==
    \E r \in Reqs :
        QueryUpstream(r, TRUE, PairAnswer(req[r].query), "n1", FiveRelated, << >>, NoChannels)

NextPair ==
    \/ PairSubmit
    \/ LoadMemory(BOOLEAN)
    \/ PairUpstream
    \/ InsertSession({FALSE})
    \/ InsertHistory({FALSE})
    \/ PutMemory({FALSE})
    \/ ForgetAnswered

SpecPair == Init /\ [][NextPair]_vars

-----------------------------------------------------------------------------
(* Two conversations, c1 of u1 and c2 of u2: each client sends its queries *)
(* one after the other, the two clients at the same time; an upstream call *)
(* may fail; no database errors.                                           *)

IndepClients == {[chat_id |-> "c1", userId |-> "u1"], [chat_id |-> "c2", userId |-> "u2"]}

\* The client of conversation c has a request that is not answered yet.
Busy(c) == \E r \in Reqs : req[r].finalChatId = c /\ req[r].pc \notin {"idle", "done"}

IndepSubmit ==
    \E r \in Reqs, cl \in IndepClients, q \in Queries :
        /\ ~Busy(cl.chat_id)
        /\ Len(HistoryOf(history, cl.chat_id)) < MaxIndepRows
        /\ QuerySubmit(r, q, cl.chat_id, cl.userId)

NextIndep ==
    \/ IndepSubmit
    \/ LoadMemory({FALSE})
    \/ Upstream
    \/ InsertSession({FALSE})
    \/ InsertHistory({FALSE})
    \/ PutMemory({FALSE})
    \/ ForgetAnswered

SpecIndep == Init /\ [][NextIndep]_vars

-----------------------------------------------------------------------------
(* POST /api/products of two users, the requests of one user one after the *)
(* other, while the requests of the other are handled; any statement may   *)
(* end in an error.                                                        *)

ProductsOf(u) == SelectSeq(products, LAMBDA row : row.user_id = u)

Creating(u) ==
    \E r \in Reqs : /\ req[r].kind = "product" /\ req[r].userId = u
                    /\ req[r].pc \notin {"idle", "done"}

ProdSubmit ==
    \E r \in Reqs, u \in UserInputs :
        /\ ~Creating(u)
        /\ Truthy(u) =>
               Len(ProductsOf(u)) < (IF u = "u1" THEN MaxProducts ELSE MaxOtherProducts)
        /\ ProductSubmit(r, u)

ProdSelect == \E r \in Reqs, fail \in BOOLEAN : ProductSelect(r, fail)

ProdInsert == \E r \in Reqs, fail \in BOOLEAN : ProductInsert(r, fail)

ProdGenerate == \E r \in Reqs, ok \in BOOLEAN : ProductGenerate(r, ok)

NextProducts ==
    \/ ProdSubmit
    \/ ProdSelect
    \/ ProdInsert
    \/ ProdGenerate
    \/ ForgetAnswered

SpecProducts == Init /\ [][NextProducts]_vars

-----------------------------------------------------------------------------
(* POST /api/products of one user, up to MaxSharedProducts products, while *)
(* DELETE /api/chat requests for c2, a chat id that has no session, are    *)
(* handled; any statement may end in an error.                             *)

SharedSubmitProduct ==
    /\ Len(ProductsOf("u1")) + Cardinality(InFlight("product")) < MaxSharedProducts
    /\ \E r \in Reqs : ProductSubmit(r, "u1")

SharedSubmitDelete ==
    /\ \A r \in Reqs : req[r].kind # "delete"
    /\ \E r \in Reqs : DeleteSubmit(r, "c2", "u1")

NextShared ==
    \/ SharedSubmitProduct
    \/ SharedSubmitDelete
    \/ ProdSelect
    \/ ProdInsert
    \/ ProdGenerate
    \/ ForgetAnswered
    \/ BeginDelete
    \/ CheckDelete(BOOLEAN)
    \/ RollbackDelete

SpecShared == Init /\ [][NextShared]_vars

-----------------------------------------------------------------------------
(* POST /api/query with any input, handled concurrently; any statement may *)
(* end in an error, any attempt at the AI backend may fail.  Every call a  *)
(* handler awaits returns or fails: a handler that can go on does go on.   *)

LiveSubmit ==
    \E r \in Reqs, q \in {"q1", Missing}, c \in {"c1", Missing}, u \in {"u1", Missing} :
        /\ Len(history) + Cardinality(InFlight("query")) < MaxLiveRows
        /\ QuerySubmit(r, q, c, u)

LiveLoadMemory(r) == \E fail \in BOOLEAN : QueryLoadMemory(r, fail)

LiveUpstream(r) == \E ok \in BOOLEAN : QueryUpstream(r, ok, "a1", "n1", FiveRelated, << >>, NoChannels)

LiveInsertSession(r) == \E fail \in BOOLEAN : QueryInsertSession(r, fail)

LiveInsertHistory(r) == \E fail \in BOOLEAN : QueryInsertHistory(r, fail)

LivePutMemory(r) == \E fail \in BOOLEAN : QueryPutMemory(r, fail)

\* The next step of the handler of request r.
LiveHandle(r) ==
    \/ LiveLoadMemory(r)
    \/ LiveUpstream(r)
    \/ LiveInsertSession(r)
    \/ LiveInsertHistory(r)
    \/ LivePutMemory(r)

NextLive ==
    \/ LiveSubmit
    \/ \E r \in Reqs : LiveLoadMemory(r)
    \/ \E r \in Reqs : LiveUpstream(r)
    \/ \E r \in Reqs : LiveInsertSession(r)
    \/ \E r \in Reqs : LiveInsertHistory(r)
    \/ \E r \in Reqs : LivePutMemory(r)
    \/ ForgetAnswered

\* The event loop resumes every handler whose awaited promise has settled.
SpecLive == Init /\ [][NextLive]_vars /\ \A r \in Reqs : WF_vars(LiveHandle(r))

-----------------------------------------------------------------------------
(* One call of retryRequest with any retries and delay, around a function  *)
(* that fails or succeeds as it likes.                                     *)

RetryValues == {1, 2}            \* values fn returns, errors fn throws
RetryDelays == {DefaultDelay, QueryDelay}
Jitters == {0, 1, 1999}          \* floor(2 * Math.random() * 1000)

RetryStart == \E R \in 0 .. MaxRetries, D \in RetryDelays : RetryCall(R, D)

RetryFn == \E ok \in BOOLEAN, v \in RetryValues : RetryInvoke(ok, v)

RetryTimer == \E h \in Jitters : RetryWake(h)

NextRetry == RetryStart \/ RetryFn \/ RetryTimer

SpecRetry == Init /\ [][NextRetry]_vars

-----------------------------------------------------------------------------
(* Properties *)

AllFailed(calls) == \A i \in 1 .. Len(calls) : ~calls[i].ok

\* C1: when fn fails on its first k invocations (0 <= k <= retries) and
\* succeeds on invocation k + 1, retryRequest returns that result and fn has
\* been invoked exactly k + 1 times: nothing is invoked after a success.
C1_RetryReturnsFirstSuccess ==
    LET n == Len(rr.calls)
    IN /\ \A i \in 1 .. n - 1 : ~rr.calls[i].ok
       /\ n <= rr.retries + 1
       /\ (n > 0 /\ rr.calls[n].ok) =>
              rr.state = "returned" /\ rr.result = rr.calls[n].val
       /\ rr.state = "returned" => n > 0 /\ rr.calls[n].ok

\* retries = 3, fn failed twice and then succeeded: three invocations.
C1_Witness ==
    /\ rr.state = "returned" /\ rr.retries = 3
    /\ Len(rr.calls) = 3
    /\ ~rr.calls[1].ok /\ ~rr.calls[2].ok /\ rr.calls[3].ok
    /\ rr.result = rr.calls[3].val

\* C2: when every invocation of fn fails, fn is invoked exactly retries + 1
\* times and retryRequest then throws the error of the last invocation.
C2_RetryExhaustionThrowsLast ==
    LET n == Len(rr.calls)
    IN /\ rr.state = "thrown" =>
              /\ n = rr.retries + 1
              /\ AllFailed(rr.calls)
              /\ rr.thrown = rr.calls[n].val
       /\ (AllFailed(rr.calls) /\ n = rr.retries + 1) => rr.state = "thrown"
       /\ (AllFailed(rr.calls) /\ n < rr.retries + 1) =>
              rr.state \in {"idle", "invoke", "wait"}

\* retries = 2, three failures, the first error differs from the last one.
C2_Witness ==
    /\ rr.state = "thrown" /\ rr.retries = 2
    /\ Len(rr.calls) = 3
    /\ rr.calls[1].val # rr.calls[3].val
    /\ rr.thrown = rr.calls[3].val

\* The messages of the most recent n exchanges of conversation c, oldest
\* first: for each chat_history row its query as a user message, then its
\* answer as an assistant message.
RecentExchanges(c, n) ==
    LET h == HistoryOf(history, c)
        k == Min(Len(h), n)
    IN [i \in 1 .. 2 * k |->
           LET row == h[Len(h) - k + (i + 1) \div 2]
           IN IF i % 2 = 1
              THEN [role |-> "user", content |-> row.query]
              ELSE [role |-> "assistant", content |-> row.answer]]

\* C5: every stored chat memory has at most 20 messages, in every state that
\* any interleaving of POST /api/query requests reaches.
C5_MemoryAtMost20 == \A c \in DOMAIN memory : Len(memory[c]) <= 20

\* A stored memory is full and a request that loaded the full memory has
\* stored its own exchange on top of it.
C5_Witness ==
    \E r \in Reqs :
        /\ req[r].pc = "done" /\ req[r].status = 200
        /\ Len(req[r].chatMemory) = 20
        /\ Len(memory[req[r].finalChatId]) = 20

\* C6: once N queries on one conversation id have been handled one after the
\* other without failure (N rows of chat_history), the stored memory is the
\* user/assistant pairs of the most recent min(N, 10) exchanges in order, and
\* for N > 10 it has exactly 20 entries.
C6_MemoryIsRecentExchanges ==
    NoneInFlight =>
        \A c \in ChatIds :
            LET n == Len(HistoryOf(history, c))
            IN n > 0 =>
                  /\ Has(memory, c)
                  /\ memory[c] = RecentExchanges(c, 10)
                  /\ Len(memory[c]) = 2 * Min(n, 10)
                  /\ n > 10 => Len(memory[c]) = 20

\* Eleven exchanges are done; the first one, which the memory has dropped,
\* differs from the second, which it still holds.
C6_Witness ==
    /\ NoneInFlight
    /\ Len(HistoryOf(history, "c1")) = 11
    /\ history[1].query = "q2" /\ history[2].query = "q1"
    /\ Len(memory["c1"]) = 20
    /\ memory["c1"][1].content = "q1"

TablesUnchanged == UNCHANGED <<sessions, history, memory>>

\* The tables in the next state.
TablesNext == [s |-> sessions', h |-> history', m |-> memory']

\* The request of slot r was answered 500 because retryRequest threw.
UpstreamFailed(q) ==
    q.kind = "query" /\ q.pc = "done" /\ q.status = 500 /\ q.body.details = UpstreamError

\* C3: a POST /api/query whose upstream call fails on all six attempts
\* answers 500 and leaves chat_sessions, chat_history and chat_memory as they
\* were: every step of the request up to and including that answer (arrival,
\* memory read, each failed attempt) changes no table, and the answer comes
\* straight from the sixth failed attempt.
C3_UpstreamFailureNoPersistence ==
    [][\A r \in Reqs :
          (req'[r] # req[r] /\ req'[r].kind = "query") =>
              /\ (req'[r].pc \in {"loadmem", "upstream"} \/ UpstreamFailed(req'[r])) =>
                     /\ TablesUnchanged
                     /\ req[r].pc \in {"idle", "loadmem", "upstream"}
              /\ UpstreamFailed(req'[r]) =>
                     /\ req[r].pc = "upstream"
                     /\ req[r].attempt = QueryRetries
              /\ (req[r].pc = "upstream" /\ req'[r].pc = "done") =>
                     UpstreamFailed(req'[r])
              /\ req[r].pc = "upstream" => req[r].attempt <= QueryRetries
      ]_vars

\* A query on the stored conversation was answered 500 after the upstream
\* failed six times, and the stored exchange is still there.
C3_Witness ==
    \E r \in Reqs :
        /\ UpstreamFailed(req[r])
        /\ req[r].finalChatId = "c1"
        /\ Tables = StoredExchange

\* C4: a POST /api/query whose query is missing or empty, or whose userId is
\* missing, is answered 400 at once: it never waits for the database or the
\* AI backend.
C4_InvalidQueryRejected ==
    \A r \in Reqs :
        (req[r].kind = "query" /\ (~Truthy(req[r].query) \/ ~Truthy(req[r].userId))) =>
            req[r].pc = "done" /\ req[r].status = 400

\* The session of conversation c exists and belongs to another user than u.
OwnedByOther(c, u) == Has(sessions, c) /\ sessions[c].user_id # u

\* The rows of conversation c: its session row (with the favorite flag), its
\* history rows, its memory row.
ChatRows(t, c) ==
    [s |-> IF Has(t.s, c) THEN << t.s[c] >> ELSE << >>,
     h |-> HistoryOf(t.h, c),
     m |-> IF Has(t.m, c) THEN << t.m[c] >> ELSE << >>]

\* C7: a request for the history of, the deletion of, or the favorite flag of
\* a session of another user is answered 403 (500 when its statement ends in
\* an error), returns no history row, and none of its steps changes the
\* session row, the history rows or the memory row of that session.
C7_ForeignSessionUntouched ==
    [][\A r \in Reqs :
          (/\ req'[r] # req[r]
           /\ req'[r].kind \in {"history", "delete", "favorite"}
           /\ Truthy(req'[r].chat_id) /\ Truthy(req'[r].userId)
           /\ OwnedByOther(req'[r].chat_id, req'[r].userId)) =>
              /\ ChatRows(TablesNext, req'[r].chat_id) = ChatRows(Tables, req'[r].chat_id)
              /\ req'[r].pc = "done" =>
                     /\ req'[r].status \in {403, 500}
                     /\ req'[r].body.rows = << >>
      ]_vars

\* C8: a POST /api/query with the chat_id of a session of another user is
\* refused: the memory of that session is not loaded for the upstream call,
\* and the request gets to no insert into chat_history and no upsert of
\* chat_memory.
C8_ForeignQueryRefused ==
    \A r \in Reqs :
        (/\ req[r].kind = "query"
         /\ Truthy(req[r].chat_id) /\ Truthy(req[r].userId)
         /\ OwnedByOther(req[r].chat_id, req[r].userId)) =>
            /\ req[r].chatMemory = << >>
            /\ req[r].pc \notin {"ins_history", "put_memory"}
            /\ ~(req[r].pc = "done" /\ req[r].status = 200)

\* What the database holds for good: the tables as a ROLLBACK would leave
\* them.
Durable == Restored

DurableNext == IF txn'.state = "idle" THEN TablesNext ELSE txn'.snap

AllGone(t, c) == ChatRows(t, c) = [s |-> << >>, h |-> << >>, m |-> << >>]

\* C9: the deletion of a session is all-or-nothing: no step of a DELETE
\* /api/chat request makes a part of the rows of its chat id (session row,
\* history rows, memory row) go for good; either what the database holds of
\* them stays as it is, or all of them are gone.
C9_DeleteAllOrNothing ==
    [][\A r \in Reqs :
          (req'[r] # req[r] /\ req'[r].kind = "delete" /\ Truthy(req'[r].chat_id)) =>
              \/ ChatRows(DurableNext, req'[r].chat_id) = ChatRows(Durable, req'[r].chat_id)
              \/ AllGone(DurableNext, req'[r].chat_id)
      ]_vars

\* C10: when DELETE /api/chat answers 200, no chat_memory row and no
\* chat_history row of that chat id remain; and a GET /api/chat-history for a
\* chat id that has no session returns no rows (an empty list, or an error
\* status without rows).
C10_DeleteCascades ==
    [][\A r \in Reqs :
          /\ (/\ req'[r] # req[r] /\ req'[r].kind = "delete"
              /\ req'[r].pc = "done" /\ req'[r].status = 200) =>
                 /\ ~Has(memory', req'[r].chat_id)
                 /\ HistoryOf(history', req'[r].chat_id) = << >>
          /\ (/\ req'[r] # req[r] /\ req'[r].kind = "history"
              /\ req'[r].pc = "done" /\ ~Has(sessions, req'[r].chat_id)) =>
                 req'[r].body.rows = << >>
      ]_vars

\* C11: the ownership check of GET /api/chat-history, POST
\* /api/update-chat-favorite and DELETE /api/chat tells the two refusals
\* apart: when no session row has the chat id the request is refused with 404,
\* and it is refused with 403 only when the session row exists and belongs to
\* another user (a check whose statement ends in an error gives 500).
C11_MissingSessionNotFound ==
    [][\A r \in Reqs :
          (/\ req[r].pc \in {"h_check", "f_check", "d_check"}
           /\ req'[r] # req[r]
           /\ req'[r].status # 500) =>
              /\ ~Has(sessions, req[r].chat_id) => req'[r].status = 404
              /\ req'[r].status = 403 => OwnedByOther(req[r].chat_id, req[r].userId)
      ]_vars

\* The name POST /api/query gives a session it creates.
SessionName(chat_name) == IF Truthy(chat_name) THEN chat_name ELSE DefaultChatName

\* C12: session creation is idempotent and the first writer wins: no step of
\* the POST /api/query requests removes a session row or changes its name or
\* its owner, a session row that appears carries the chat id, the user and
\* the name of the request whose insert created it, and a request is answered
\* 200 only when the session row of its chat id exists.
C12_FirstWriterWins ==
    [][/\ \A c \in DOMAIN sessions :
             /\ Has(sessions', c)
             /\ sessions'[c].name = sessions[c].name
             /\ sessions'[c].user_id = sessions[c].user_id
       /\ \A c \in DOMAIN sessions' \ DOMAIN sessions :
             \E r \in Reqs :
                 /\ req[r].pc = "ins_session" /\ req'[r].pc = "ins_history"
                 /\ req[r].finalChatId = c
                 /\ sessions'[c].user_id = req[r].userId
                 /\ sessions'[c].name = SessionName(req[r].data.chat_name)
       /\ \A r \in Reqs :
             (req'[r].kind = "query" /\ req'[r].pc = "done" /\ req'[r].status = 200) =>
                 Has(sessions', req'[r].finalChatId)
      ]_vars

\* The session of c1 was created by u1 under the name n1, and a later request
\* of u2 on c1, for which the AI backend gave the name n2, was answered 200.
C12_Witness ==
    /\ Has(sessions, "c1")
    /\ sessions["c1"].name = "n1" /\ sessions["c1"].user_id = "u1"
    /\ \E r \in Reqs :
          /\ req[r].kind = "query" /\ req[r].pc = "done" /\ req[r].status = 200
          /\ req[r].finalChatId = "c1"
          /\ req[r].userId = "u2" /\ req[r].data.chat_name = "n2"
          /\ Len(req[r].chatMemory) > 0

\* The last two messages of the list mem are the exchange of request q.
EndsWithExchange(mem, q) ==
    /\ Len(mem) >= 2
    /\ mem[Len(mem) - 1] = [role |-> "user", content |-> q.query]
    /\ mem[Len(mem)] = [role |-> "assistant", content |-> q.data.answer]

\* C13: POST /api/query answers 200 with the payload only from the step in
\* which its memory upsert succeeds, which comes after the step in which its
\* history row is appended, which comes after its session insert, the session
\* row existing; a request whose session insert, history insert or memory
\* upsert fails (the statement changes no table and the handler does not get
\* to its next statement) is answered 500 without the answer, by that step.
C13_AnswerOnlyAfterPersistence ==
    [][\A r \in Reqs :
          (req'[r] # req[r] /\ req'[r].kind = "query") =>
              LET c == req'[r].finalChatId
              IN /\ (req'[r].pc = "done" /\ req'[r].status = 200) =>
                        /\ req[r].pc = "put_memory"
                        /\ Has(sessions', c) /\ Has(memory', c)
                        /\ EndsWithExchange(memory'[c], req[r])
                        /\ req'[r].body.answer = req[r].data.answer
                        /\ req'[r].body.related_queries = req[r].data.related_queries
                 /\ req'[r].pc = "put_memory" =>
                        /\ req[r].pc = "ins_history"
                        /\ Len(history') = Len(history) + 1
                        /\ SubSeq(history', 1, Len(history)) = history
                        /\ history'[Len(history')].chat_id = c
                        /\ history'[Len(history')].query = req[r].query
                        /\ history'[Len(history')].answer = req[r].data.answer
                 /\ req'[r].pc = "ins_history" =>
                        /\ req[r].pc = "ins_session"
                        /\ Has(sessions', c)
                 /\ (/\ \/ req[r].pc \in {"ins_history", "put_memory"}
                        \/ req[r].pc = "ins_session" /\ req'[r].pc # "ins_history"
                     /\ ~(req'[r].pc = "done" /\ req'[r].status = 200)
                     /\ TablesUnchanged) =>
                        /\ req'[r].pc = "done" /\ req'[r].status = 500
                        /\ req'[r].body.answer = Missing
                        /\ req'[r].body.related_queries = << >>
      ]_vars

\* The AI backend answered, the history row was appended, the memory upsert
\* failed: the request was answered 500 without the answer.
C13_Witness ==
    \E r \in Reqs :
        /\ req[r].kind = "query" /\ req[r].pc = "done" /\ req[r].status = 500
        /\ req[r].data.answer = "a1" /\ req[r].body.answer = Missing
        /\ req[r].body.details = DatabaseError
        /\ HistoryOf(history, req[r].finalChatId) # << >>
        /\ ~Has(memory, req[r].finalChatId)

\* The element out of the normalised list stands for the upstream element
\* item: it is item itself, or the object made of the bare string item.
SameSuggestion(item, out) ==
    \/ out = item
    \/ item.type = "string" /\ out = JSuggestion(item.text, "Generated suggestion")

\* out is a suggestion generateAdditionalQueries makes for query.
FallbackSuggestion(out, query) ==
    \E i \in 1 .. 8 : out = JSuggestion(defaultQueries(query)[i], "Generated suggestion")

\* C14: when the upstream response carries k < 5 related queries (k = 0 when
\* the field is absent or not a list), the related_queries of the request,
\* which its history row and its 200 response carry, are exactly 5: the k
\* upstream ones in their order, then 5 - k fallback suggestions; with k >= 5
\* they are the k upstream ones in their order and nothing else.
C14_RelatedPadding ==
    \A r \in Reqs :
        (/\ req[r].kind = "query"
         /\ \/ req[r].pc \in {"ins_session", "ins_history", "put_memory"}
            \/ req[r].pc = "done" /\ req[r].status = 200) =>
            LET up == RelatedList(req[r].received)
                k == Len(up)
                out == req[r].data.related_queries
            IN /\ k = (IF req[r].received.type = "array"
                       THEN Len(req[r].received.items) ELSE 0)
               /\ Len(out) = (IF k < 5 THEN 5 ELSE k)
               /\ \A i \in 1 .. k : SameSuggestion(up[i], out[i])
               /\ \A i \in k + 1 .. Len(out) : FallbackSuggestion(out[i], req[r].query)
               /\ (req[r].pc = "done") => req[r].body.related_queries = out
               /\ (req[r].pc \in {"put_memory", "done"}) =>
                      history[Len(history)].relevant_queries = out

\* The upstream sent two related queries, a bare string and a number; the
\* response carries them first and three different fallback suggestions after.
C14_Witness ==
    \E r \in Reqs :
        /\ req[r].kind = "query" /\ req[r].pc = "done" /\ req[r].status = 200
        /\ req[r].received = JArray(<< JString("s1"), JNumber(7) >>)
        /\ Len(req[r].body.related_queries) = 5
        /\ req[r].body.related_queries[1].query = "s1"
        /\ req[r].body.related_queries[3].query = "What standards govern q1?"
        /\ req[r].body.related_queries[4].query # req[r].body.related_queries[5].query

\* An object with the fields query and context.
SuggestionShape(item) ==
    item.type = "object" /\ {"query", "context"} \subseteq DOMAIN item

\* C15: after the normalisation every element of related_queries, in the
\* data of the request, in its response and in its stored history row, is an
\* object with the fields query and context, whatever the upstream list held.
C15_RelatedShape ==
    /\ \A r \in Reqs :
          /\ \A i \in 1 .. Len(req[r].data.related_queries) :
                SuggestionShape(req[r].data.related_queries[i])
          /\ \A i \in 1 .. Len(req[r].body.related_queries) :
                SuggestionShape(req[r].body.related_queries[i])
    /\ \A n \in 1 .. Len(history) :
          \A i \in 1 .. Len(history[n].relevant_queries) :
              SuggestionShape(history[n].relevant_queries[i])

\* Every row of chat_history is still there, unchanged and in its place, in
\* the next state.
HistoryKept ==
    /\ Len(history') >= Len(history)
    /\ SubSeq(history', 1, Len(history)) = history

\* C16: history is append-only: the step of a POST /api/query that inserts
\* its history row appends exactly one row of its chat id and every other
\* step of it appends nothing, and no step of a query, a favorite toggle, a
\* history read or a refused request (400, 403, 404) changes or removes a row
\* that is there; only the steps of a DELETE /api/chat that is not refused
\* may remove rows.
C16_HistoryAppendOnly ==
    [][\A r \in Reqs :
          req'[r] # req[r] =>
              /\ req'[r].kind = "query" =>
                     IF req[r].pc = "ins_history" /\ req'[r].pc = "put_memory"
                     THEN /\ history' = Append(history, history'[Len(history')])
                          /\ history'[Len(history')].chat_id = req[r].finalChatId
                     ELSE history' = history
              /\ (\/ req'[r].kind \in {"query", "favorite", "history"}
                  \/ req'[r].kind = "delete" /\ req'[r].status \in {400, 403, 404}) =>
                     HistoryKept
      ]_vars

\* C17: the rows a GET /api/chat-history answers with are the history rows
\* of the chat id in the order in which they were appended, which is the
\* order of ascending created_at.
C17_HistoryInAppendOrder ==
    [][\A r \in Reqs :
          (/\ req'[r] # req[r] /\ req'[r].kind = "history"
           /\ req'[r].pc = "done" /\ req'[r].status = 200) =>
              LET rows == req'[r].body.rows
              IN /\ rows = HistoryOf(history, req[r].chat_id)
                 /\ \A i \in 1 .. Len(rows) - 1 :
                       rows[i].created_at <= rows[i + 1].created_at
      ]_vars

\* C18: the memory read of a POST /api/query never ends the request: whether
\* it succeeds or fails, the handler goes on to the upstream call; when the
\* read failed, and when no memory row exists for the chat id, the memory it
\* goes on with is empty, and the memory sent upstream is the one it goes on
\* with.
C18_MemoryFailureDegrades ==
    [][\A r \in Reqs :
          (req'[r] # req[r] /\ req'[r].kind = "query") =>
              /\ req[r].pc = "loadmem" =>
                     /\ req'[r].pc = "upstream"
                     /\ req'[r].status = 0
                     /\ (req'[r].memoryError \/ ~Has(memory, req[r].chat_id)) =>
                            req'[r].chatMemory = << >>
                     /\ (~req'[r].memoryError /\ Has(memory, req[r].chat_id)) =>
                            req'[r].chatMemory = memory[req[r].chat_id]
              /\ req[r].pc = "upstream" =>
                     /\ req'[r].sent.memory = req[r].chatMemory
                     /\ req[r].memoryError => req'[r].sent.memory = << >>
              /\ req'[r].memoryError => req[r].pc # "idle"
      ]_vars

\* The memory read of a query on the stored conversation failed; the request
\* sent an empty memory upstream and was answered 200, and the memory it
\* stored holds its own exchange only.
C18_Witness ==
    \E r \in Reqs :
        /\ req[r].kind = "query" /\ req[r].pc = "done" /\ req[r].status = 200
        /\ req[r].memoryError
        /\ req[r].sent.memory = << >>
        /\ req[r].finalChatId = "c1"
        /\ Len(HistoryOf(history, "c1")) = 2
        /\ Len(memory["c1"]) = 2

\* C19: a POST /api/query resolves one conversation id when it arrives, the
\* chat_id of the client if it sent one, else a new id that no session and no
\* other request has, and keeps it: the request to the AI backend, the
\* session row, the history row and the memory row it writes, and the chatId
\* of its 200 response all carry that id, and it writes rows of no other id.
C19_OneConversationId ==
    [][\A r \in Reqs :
          (req'[r] # req[r] /\ req'[r].kind = "query") =>
              LET c == req'[r].finalChatId
              IN /\ (req[r].pc = "idle" /\ Truthy(req'[r].userId)) =>
                        IF Truthy(req'[r].chat_id)
                        THEN c = req'[r].chat_id
                        ELSE /\ Truthy(c)
                             /\ ~Has(sessions, c)
                             /\ \A s \in Reqs \ {r} :
                                   req[s].finalChatId # c /\ req[s].chat_id # c
                 /\ req[r].pc # "idle" => c = req[r].finalChatId
                 /\ req[r].pc = "upstream" => req'[r].sent.chat_id = c
                 /\ \A k \in DOMAIN sessions' \ DOMAIN sessions : k = c
                 /\ \A k \in DOMAIN sessions : Has(sessions', k)
                 /\ history' # history =>
                        /\ history' = Append(history, history'[Len(history')])
                        /\ history'[Len(history')].chat_id = c
                 /\ \A k \in (DOMAIN memory \cup DOMAIN memory') \ {c} :
                        /\ Has(memory, k) /\ Has(memory', k)
                        /\ memory'[k] = memory[k]
                 /\ (req'[r].pc = "done" /\ req'[r].status = 200) =>
                        /\ req'[r].body.chatId = c
                        /\ Has(sessions', c) /\ Has(memory', c)
      ]_vars

\* A query without chat_id, sent while the session c1 is stored, was answered
\* 200: the id made for it is c2, and the request sent upstream, the rows and
\* the response carry c2.
C19_Witness ==
    \E r \in Reqs :
        /\ req[r].kind = "query" /\ req[r].pc = "done" /\ req[r].status = 200
        /\ req[r].chat_id = Missing
        /\ req[r].finalChatId = "c2"
        /\ req[r].sent.chat_id = "c2"
        /\ req[r].body.chatId = "c2"
        /\ Has(sessions, "c1") /\ Has(sessions, "c2") /\ Has(memory, "c2")
        /\ HistoryOf(history, "c2") # << >>

\* The history row that request q appended is stored.
HasRowOf(q) ==
    \E i \in 1 .. Len(history) :
        /\ history[i].chat_id = q.finalChatId
        /\ history[i].query = q.query
        /\ history[i].user_id = q.userId

\* C20: concurrent POST /api/query requests on one conversation id are not
\* serialized: each request that is answered 200 has its history row stored,
\* and its memory upsert replaces the stored memory, whatever it holds by
\* then, by the memory the request loaded plus its own exchange (cut to the
\* last 20): the last upsert wins, and the exchange of a request that stored
\* its memory in between is lost from it.
C20_MemoryLastWriterWins ==
    [][\A r \in Reqs :
          (/\ req[r].kind = "query" /\ req[r].pc = "put_memory"
           /\ req'[r].pc = "done" /\ req'[r].status = 200) =>
              LET c == req[r].finalChatId
                  own == << [role |-> "user", content |-> req[r].query],
                            [role |-> "assistant", content |-> req[r].data.answer] >>
              IN /\ memory'[c] = SliceLast(req[r].chatMemory \o own, 20)
                 /\ history' = history
                 /\ HasRowOf(req[r])
      ]_vars

\* Both requests, q1 of u1 and q2 of u2 on c1, loaded the same (empty) memory
\* and were answered 200; both history rows are stored, the row of q1 first;
\* the stored memory holds the exchange of q1 and lacks the one of q2.
C20_Witness ==
    /\ req[1].kind = "query" /\ req[1].pc = "done" /\ req[1].status = 200
    /\ req[2].kind = "query" /\ req[2].pc = "done" /\ req[2].status = 200
    /\ req[1].query # req[2].query
    /\ req[1].chatMemory = << >> /\ req[2].chatMemory = << >>
    /\ Len(history) = 2
    /\ history[1].query = "q1" /\ history[2].query = "q2"
    /\ Len(memory["c1"]) = 2
    /\ memory["c1"][1].content = "q1"

\* The memory that the queries of the rows, handled one after the other from
\* an empty memory, leave stored.
RECURSIVE Replay(_)
Replay(rows) ==
    IF rows = << >> THEN << >>
    ELSE limitedMemory(Replay(SubSeq(rows, 1, Len(rows) - 1)),
                       rows[Len(rows)].query, rows[Len(rows)].answer)

\* C21: queries on different conversation ids are independent: no step of a
\* query changes a session, history or memory row of another conversation
\* id than its own, and whenever a conversation has no query in flight its
\* rows are those its own queries leave when they run alone one after the
\* other: the session row of its user, and the memory that its history rows
\* replayed in order give (no memory row while it has no history row).
C21_ConversationsIndependent ==
    [][/\ \A r \in Reqs :
             (req'[r] # req[r] /\ req'[r].kind = "query") =>
                 \A c \in ChatIds \ {req'[r].finalChatId} :
                     ChatRows(TablesNext, c) = ChatRows(Tables, c)
       /\ \A cl \in IndepClients :
             LET c == cl.chat_id
                 rows == HistoryOf(history', c)
             IN (\A r \in Reqs : req'[r].finalChatId = c => req'[r].pc = "done") =>
                    IF rows = << >>
                    THEN ~Has(memory', c)
                    ELSE /\ Has(sessions', c) /\ sessions'[c].user_id = cl.userId
                         /\ Has(memory', c) /\ memory'[c] = Replay(rows)
                         /\ \A i \in 1 .. Len(rows) : rows[i].user_id = cl.userId
      ]_vars

\* Both conversations hold two exchanges, stored by queries that were in
\* flight at the same time, and different ones.
C21_Witness ==
    /\ Len(HistoryOf(history, "c1")) = 2 /\ Len(HistoryOf(history, "c2")) = 2
    /\ history[1].chat_id = "c1" /\ history[2].chat_id = "c2"
    /\ history[3].chat_id = "c2" /\ history[4].chat_id = "c1"
    /\ memory["c1"] # memory["c2"]
    /\ req[1].pc = "done" /\ req[2].pc = "done"
    /\ req[1].status = 200 /\ req[2].status = 200

\* The palette, written out.
Palette == <<"red", "purple", "orange", "green", "blue", "white">>

\* c is the first color of the palette no row of rows holds, red when every
\* color of the palette is held.
FirstColorNotHeld(c, rows) ==
    LET held == {rows[i].color : i \in 1 .. Len(rows)}
    IN \/ \E k \in 1 .. 6 : /\ c = Palette[k]
                            /\ c \notin held
                            /\ \A j \in 1 .. k - 1 : Palette[j] \in held
       \/ /\ \A k \in 1 .. 6 : Palette[k] \in held
          /\ c = "red"

\* C22: a product creation stores one product of the user, colored with the
\* first color of the palette red, purple, orange, green, blue, white that
\* none of the user's products holds, red when the six colors are held; and
\* the first six products a user creates one after the other have the six
\* colors of the palette, each once.
C22_ProductColor ==
    [][ /\ \A r \in Reqs :
              (req[r].pc = "p_insert" /\ req'[r].pc = "p_generate") =>
                  \E c \in {Palette[k] : k \in 1 .. 6} :
                      /\ FirstColorNotHeld(c, ProductsOf(req[r].userId))
                      /\ products' = Append(products, [user_id |-> req[r].userId,
                                                       color |-> c])
                      /\ req'[r].product.color = c
        /\ \A u \in Users :
              LET mine == SelectSeq(products', LAMBDA row : row.user_id = u)
              IN \A i, j \in 1 .. Min(Len(mine), 6) : i # j => mine[i].color # mine[j].color
      ]_vars

\* The first user has created seven products, the seventh red again, while
\* the second user created products of their own.
C22_Witness ==
    /\ Len(ProductsOf("u1")) = 7
    /\ ProductsOf("u1")[6].color = "white"
    /\ ProductsOf("u1")[7].color = "red"
    /\ Len(ProductsOf("u2")) >= 2
    /\ \E i \in 1 .. Len(products) - 1 :
          products[i].user_id = "u1" /\ products[i + 1].user_id = "u2"

\* C23: retryRequest waits only between two consecutive invocations of fn:
\* never before the first one, never after a success or after the last
\* failure, so that a finished call has waited once less than it invoked fn.
\* The first wait lasts the delay retryRequest was called with; each later
\* wait w' follows a wait w with floor(1.5 w) <= w' <= floor(1.5 w + 999.5),
\* that is, w' = floor(1.5 w + j) for some 0 <= j < 1000; no wait is shorter
\* than the one before.
C23_WaitSchedule ==
    [][ /\ LET n == Len(rr'.calls)
               w == Len(rr'.waits)
           IN /\ rr'.state = "invoke" => w = n
              /\ rr'.state = "wait" => w = n /\ ~rr'.calls[n].ok
              /\ (rr'.state \in {"returned", "thrown"} /\ n > 0) => w = n - 1
              /\ n = 0 => w = 0
              /\ \A i \in 1 .. w - 1 :
                    /\ 2 * rr'.waits[i + 1] >= 3 * rr'.waits[i] - 1
                    /\ 2 * rr'.waits[i + 1] <= 3 * rr'.waits[i] + 1999
                    /\ rr'.waits[i + 1] >= rr'.waits[i]
        /\ (rr.state # "idle" /\ rr'.waits = << >>) => rr'.delay = rr.delay
        /\ (rr.waits = << >> /\ rr'.waits # << >>) => rr'.waits = << rr.delay >>
        /\ rr.waits # << >> => SubSeq(rr'.waits, 1, Len(rr.waits)) = rr.waits
      ]_vars

\* retryRequest(fn, 3, 1000) has thrown after four failures and three waits
\* of 1000, 1500 and 3249 milliseconds.
C23_Witness ==
    /\ rr.state = "thrown" /\ rr.retries = 3
    /\ Len(rr.calls) = 4
    /\ rr.waits = << 1000, 1500, 3249 >>

\* The handler of request r has not answered yet.
Unanswered(r) == req[r].kind = "query" /\ req[r].pc \notin {"idle", "done"}

\* C24: every POST /api/query is answered, once, with 400, 200 or 500: a
\* request being handled is eventually answered, its answer does not change
\* afterwards and a request is not dropped without an answer; within one
\* request the AI backend is invoked at most six times.
C24_QueryAnswered ==
    /\ [][ \A r \in Reqs :
              /\ (req[r].pc # "done" /\ req'[r].pc = "done" /\ req'[r].kind = "query") =>
                     req'[r].status \in {400, 200, 500}
              /\ (req[r].pc = "done" /\ req'[r].pc = "done") => req'[r] = req[r]
              /\ Unanswered(r) => req'[r].pc # "idle"
              /\ (req[r].pc = "upstream" /\ req'[r] # req[r]) =>
                     req[r].attempt + 1 <= QueryRetries + 1
         ]_vars
    /\ \A r \in Reqs : Unanswered(r) ~> (req[r].pc = "done")

\* One request was answered 500 after the sixth attempt at the AI backend
\* failed while the other is at its sixth attempt.
C24_Witness ==
    /\ req[1].kind = "query" /\ req[1].pc = "done" /\ req[1].status = 500
    /\ req[1].body.details = UpstreamError
    /\ req[2].kind = "query" /\ req[2].pc = "upstream" /\ req[2].attempt = QueryRetries

\* Every chat_history row and every chat_memory row of the tables t belongs
\* to a chat_sessions row of t.
NoOrphans(t) ==
    /\ \A i \in 1 .. Len(t.h) : Has(t.s, t.h[i].chat_id)
    /\ \A c \in DOMAIN t.m : Has(t.s, c)

\* C25: whatever the interleaving of POST /api/query and DELETE /api/chat,
\* on the same chat or not, every chat_history row and every chat_memory row
\* refers to a chat_sessions row, in the tables as the statements see them
\* and in the tables as a ROLLBACK would leave them.  (chat_memory has one
\* row per chat_id at most: the table is a function of chat_id, as its
\* UNIQUE constraint and the ON CONFLICT clause of the only INSERT make it.)
C25_NoOrphans == NoOrphans(Tables) /\ NoOrphans(Durable)

\* A DELETE /api/chat has deleted the history of c1 and is about to delete
\* the session row, while a POST /api/query on c1 has just appended a
\* history row to it.
C25_Witness ==
    \E r, q \in Reqs :
        /\ req[r].kind = "delete" /\ req[r].chat_id = "c1" /\ req[r].pc = "d_session"
        /\ req[q].kind = "query" /\ req[q].finalChatId = "c1" /\ req[q].pc = "put_memory"
        /\ Len(HistoryOf(history, "c1")) = 1
        /\ Has(sessions, "c1")

\* C26: the transaction of a DELETE /api/chat covers only the statements of
\* that request: while a POST /api/query answered 200 is the latest request
\* on its chat and no DELETE /api/chat names that chat, the session row, the
\* history row and the memory it stored are stored, whatever a delete request
\* on another chat does, a refused and rolled back one included.
C26_DeleteCoversOwnStatements ==
    \A r \in Reqs :
        (/\ req[r].kind = "query" /\ req[r].pc = "done" /\ req[r].status = 200
         /\ \A d \in Reqs : req[d].kind = "delete" => req[d].chat_id # req[r].finalChatId) =>
            /\ Has(sessions, req[r].finalChatId)
            /\ HasRowOf(req[r])
            /\ Has(memory, req[r].finalChatId)
            /\ EndsWithExchange(memory[req[r].finalChatId], req[r])

\* C27: the history row a POST /api/query appends stores every list of the
\* upstream response: document references, similar images, online images,
\* online videos, online links and product colors each as received, an empty
\* list for one that is absent, and the related queries as normalized.
C27_SideChannelsStored ==
    [][ \A r \in Reqs :
           (req[r].pc = "ins_history" /\ req'[r].pc = "put_memory") =>
               LET row == history'[Len(history')]
               IN /\ Len(history') = Len(history) + 1
                  /\ \A ch \in ChannelNames :
                        row[ch] = IF req[r].data.channels[ch].type = "undefined"
                                  THEN JArray(<< >>)
                                  ELSE req[r].data.channels[ch]
                  /\ row.relevant_queries = req[r].data.related_queries
      ]_vars

\* The history rows of the chat, query and user of request q.
RowsOf(h, q) ==
    SelectSeq(h, LAMBDA row : /\ row.chat_id = q.finalChatId
                              /\ row.query = q.query
                              /\ row.user_id = q.userId)

\* C28: the writes of a POST /api/query are not atomic.  When its memory
\* upsert fails, the request answers 500 and nothing is taken back: the
\* session row and the history row the request appended are stored and the
\* memory is what it was.  A history insert always appends one row, so that
\* the same request sent again stores a second row for the same query.
C28_WritesNotAtomic ==
    [][ \A r \in Reqs :
           /\ (req[r].pc = "put_memory" /\ req'[r].pc = "done" /\ req'[r].status = 500) =>
                  /\ sessions' = sessions /\ history' = history /\ memory' = memory
                  /\ Has(sessions', req[r].finalChatId)
                  /\ Len(RowsOf(history', req[r])) >= 1
           /\ (req[r].pc = "ins_history" /\ req'[r].pc = "put_memory") =>
                  Len(RowsOf(history', req[r])) = Len(RowsOf(history, req[r])) + 1
      ]_vars

\* C29: from no stored memory, whatever the sequence or interleaving of POST
\* /api/query requests, every stored memory has an even number of messages,
\* a user message at each odd place and an assistant message after it, whose
\* content is the answer of a history row of the chat that has the content of
\* the user message as its query.
C29_MemoryPairs ==
    \A c \in DOMAIN memory :
        LET mem == memory[c]
        IN /\ Len(mem) % 2 = 0
           /\ \A i \in 1 .. Len(mem) :
                 mem[i].role = IF i % 2 = 1 THEN "user" ELSE "assistant"
           /\ \A k \in 1 .. Len(mem) \div 2 :
                 \E j \in 1 .. Len(history) :
                     /\ history[j].chat_id = c
                     /\ history[j].query = mem[2 * k - 1].content
                     /\ history[j].answer = mem[2 * k].content

\* Eleven exchanges are stored and the memory, cut to its last twenty
\* messages, begins with a user message and holds both queries.
C29_Witness ==
    /\ Len(history) = 11
    /\ Has(memory, "c1") /\ Len(memory["c1"]) = 20
    /\ memory["c1"][1] = [role |-> "user", content |-> history[2].query]
    /\ \E i, j \in 1 .. 20 : /\ memory["c1"][i].content = "a1"
                             /\ memory["c1"][j].content = "a2"

\* C30: POST /api/products inserts the product before it calls the AI
\* backend, and a failure of that call changes nothing: while the call is
\* attempted, and when the request answers after a success or after the
\* third failed attempt, the product is stored, and the answer is 200 with
\* the product created.  The request answers 500 only when one of its two
\* statements failed.
C30_ProductKept ==
    [][ \A r \in Reqs :
           (req'[r].kind = "product" /\ req'[r] # req[r]) =>
               /\ (req[r].pc = "p_insert" /\ req'[r].pc = "p_generate") =>
                      products' = Append(products, req'[r].product)
               /\ req[r].pc = "p_generate" =>
                      /\ products' = products
                      /\ \E i \in 1 .. Len(products') : products'[i] = req[r].product
                      /\ req[r].attempt <= ProductRetries
                      /\ req'[r].pc = "done" =>
                             /\ req'[r].status = 200
                             /\ req'[r].body.product = req[r].product
               /\ (req'[r].pc = "done" /\ req'[r].status = 500) =>
                      /\ req[r].pc \in {"p_select", "p_insert"}
                      /\ products' = products
      ]_vars

====
